---- MODULE Spec2Model ----
(***************************************************************************)
(* A model of the SSPA declaration-to-OpenAPI compiler: the two context-   *)
(* scoped registries, the strict-mode field builder, the @schema           *)
(* decorator, the operation/example builder, and the split engine with its *)
(* reference-rewrite walk.                                                 *)
(*                                                                         *)
(* Python values are encoded uniformly so that any two of them compare:    *)
(*   None          <<"none">>                                              *)
(*   a string      <<"str", segs>>, segs the string split at "/"           *)
(*   a class       <<"cls", c>>                                            *)
(*   Ref(name)     <<"Ref", name>>                                         *)
(*   a list        <<"list", <<v1, ..., vn>> >>                            *)
(*   a dict        <<"dict", << <<k1, v1>>, ..., <<kn, vn>> >> >>          *)
(* A dict keeps its insertion order, as Python's does.                     *)
(***************************************************************************)
EXTENDS Integers, Sequences, FiniteSets, TLC

VARIABLES
    curSchema,   \* value of the ContextVar _current_registry
    curPath,     \* value of the ContextVar _current_path_registry
    scopes,      \* open use_registry/use_path_registry frames, outermost first
    raising,     \* an exception is propagating
    lastStep,    \* name of the last step taken
    regComponents,   \* per SchemaRegistry: components, name -> schema (a dict)
    regClassToName,  \* per SchemaRegistry: class_to_name, None when absent
    clsSchemaName,   \* per class: the __schema_name__ attribute, None when unset
    clsOpenapi,      \* per class: the __openapi_schema__ attribute
    clsFields,       \* per class: __schema_fields__, the descriptors in order
    clsDeclared,     \* per class: the class statement has completed
    body,            \* the class body being evaluated: its class and namespace
    fieldArgs,   \* keyword arguments of the last field() call
    fieldResult, \* what that call did: the error raised or the descriptor's meta
    opPhase,     \* position in export_paths_dict's loop body for one method
    opSpecs,     \* the method's __op_responses__, the declared RespSpecs
    opRet,       \* what calling the method gave: a list, or None
    opResponses, \* Operation.responses, status string -> Response
    walkArgs,    \* arguments of the last _walk_rewrite call
    walkOut,     \* what that call returned
    pathMap,     \* per PathRegistry: _map, url -> the classes bound to it
    clsSource,   \* per class: the __schema_source__/__path_source__ attribute
    clsPathAttrs, \* per path class: what @path and @get stored, and how calls end
    assembled,   \* the last document built and the class_to_name it was built under
    fs,          \* the files under docs_root: path -> parsed content
    lastRun,     \* the last export_split_docs call: its classes and its files
    prevRun,     \* the call before it, when nothing changed in between
    lastCall,    \* the last call of a registry or link function: name and arguments
    lastResult,  \* what that call returned or raised
    compObj,     \* per SchemaRegistry: the dict object self.components is bound to
    heap,        \* the dict objects: object -> its present content
    held         \* per SchemaRegistry: the object an earlier get_components gave, 0 if none

scopeVars == <<curSchema, curPath, scopes, raising>>
regVars == <<regComponents, regClassToName, clsSchemaName, clsOpenapi>>
fieldVars == <<fieldArgs, fieldResult>>
classVars == <<clsFields, clsDeclared, body>>
opVars == <<opPhase, opSpecs, opRet, opResponses>>
walkVars == <<walkArgs, walkOut>>
pathVars == <<pathMap, clsSource, clsPathAttrs>>
docVars == <<assembled>>
splitVars == <<fs, lastRun, prevRun>>
callVars == <<lastCall, lastResult>>
liveVars == <<compObj, heap, held>>

vars == <<scopeVars, lastStep, regVars, fieldVars, classVars, opVars, walkVars,
          pathVars, docVars, splitVars, callVars, liveVars>>

----------------------------------------------------------------------------
(* Python values *)

None == <<"none">>
\* a string, held as its "/"-split: "a/b" is <<"str", <<"a", "b">>>>
StrP(segs) == <<"str", segs>>
Str(s) == StrP(<<s>>)
Bool(b) == <<"bool", b>>
IntV(n) == <<"int", n>>
Cls(c) == <<"cls", c>>
RefObj(name) == <<"Ref", name>>
List(elems) == <<"list", elems>>
Dict(pairs) == <<"dict", pairs>>
EmptyDict == Dict(<<>>)

IsNone(v) == v = None
IsStr(v) == v[1] = "str"
IsCls(v) == v[1] = "cls"
IsRefObj(v) == v[1] = "Ref"
IsList(v) == v[1] = "list"
IsDict(v) == v[1] = "dict"

\* bool(v)
Truthy(v) ==
    CASE v[1] = "none" -> FALSE
      [] v[1] = "str" -> v[2] # <<"">>
      [] v[1] = "bool" -> v[2]
      [] v[1] = "int" -> v[2] # 0
      [] v[1] = "list" -> Len(v[2]) > 0
      [] v[1] = "dict" -> Len(v[2]) > 0
      [] OTHER -> TRUE

\* k in d
Has(d, k) == \E i \in 1..Len(d[2]) : d[2][i][1] = k

\* d[k]
Get(d, k) == d[2][CHOOSE i \in 1..Len(d[2]) : d[2][i][1] = k][2]

\* d.get(k)
GetOrNone(d, k) == IF Has(d, k) THEN Get(d, k) ELSE None

\* d[k] = v: an existing key keeps its position, a new key goes last
Put(d, k, v) ==
    IF Has(d, k)
    THEN Dict([i \in 1..Len(d[2]) |->
                 IF d[2][i][1] = k THEN <<k, v>> ELSE d[2][i]])
    ELSE Dict(Append(d[2], <<k, v>>))

\* list(d.keys())
Keys(d) == [i \in 1..Len(d[2]) |-> d[2][i][1]]

\* x in seq
InSeq(x, seq) == \E i \in 1..Len(seq) : seq[i] = x

\* f"#/components/schemas/{name}" for a string name
ComponentRef(name) == StrP(<<"#", "components", "schemas">> \o name[2])

----------------------------------------------------------------------------
(* Bounds *)

MaxDepth == 3
MaxFields == 2

----------------------------------------------------------------------------
(* Context-scoped registries: schema/registry.py, path/registry.py *)

RootSchema == "rootS"
RootPath == "rootP"

SchemaRegs == {"rootS", "sA", "sB"}
PathRegs == {"rootP", "pA", "pB"}

\* ContextVar.set(reg): returns the token, which remembers the value replaced.
ContextVarSet(kind, old, reg) == [kind |-> kind, reg |-> reg, old |-> old]

ContextVarResetToDefault(token) ==
    IF token.kind = "schema" THEN RootSchema ELSE RootPath

\* ContextVar.reset(token): the value the variable takes.
ContextVarReset(token) == token.old

ScopeIdle ==
    /\ curSchema = RootSchema
    /\ curPath = RootPath
    /\ scopes = <<>>
    /\ raising = FALSE

\* with use_registry(reg): the part before the yield
UseRegistryEnter(reg) ==
    /\ ~raising
    /\ Len(scopes) < MaxDepth
    /\ scopes' = Append(scopes, ContextVarSet("schema", curSchema, reg))
    /\ curSchema' = reg
    /\ lastStep' = "enter"
    /\ UNCHANGED <<curPath, raising>>

\* with use_path_registry(reg): the part before the yield
UsePathRegistryEnter(reg) ==
    /\ ~raising
    /\ Len(scopes) < MaxDepth
    /\ scopes' = Append(scopes, ContextVarSet("path", curPath, reg))
    /\ curPath' = reg
    /\ lastStep' = "enter"
    /\ UNCHANGED <<curSchema, raising>>

\* the finally clause of the innermost open scope
ScopeFinally ==
    LET token == scopes[Len(scopes)] IN
    /\ scopes' = SubSeq(scopes, 1, Len(scopes) - 1)
    /\ IF token.kind = "schema"
       THEN curSchema' = ContextVarReset(token) /\ UNCHANGED curPath
       ELSE curPath' = ContextVarReset(token) /\ UNCHANGED curSchema

\* the body of the innermost scope returns
ScopeExitNormal ==
    /\ ~raising
    /\ Len(scopes) > 0
    /\ ScopeFinally
    /\ lastStep' = "exit"
    /\ UNCHANGED raising

\* an error is raised inside the innermost scope
RaiseInScope ==
    /\ ~raising
    /\ Len(scopes) > 0
    /\ raising' = TRUE
    /\ lastStep' = "raise"
    /\ UNCHANGED <<curSchema, curPath, scopes>>

\* the error leaves the innermost scope through its finally clause
ScopeExitError ==
    /\ raising
    /\ Len(scopes) > 0
    /\ ScopeFinally
    /\ lastStep' = "exit_error"
    /\ UNCHANGED raising

\* a handler around the current position catches the error
CatchError ==
    /\ raising
    /\ raising' = FALSE
    /\ lastStep' = "catch"
    /\ UNCHANGED <<curSchema, curPath, scopes>>

----------------------------------------------------------------------------
(* SchemaRegistry: schema/registry.py *)

Classes == {"Product", "Category", "Base", "Mixin", "Derived"}

\* cls.__name__
ClassName(c) == Str(c)

Ok(v) == [ok |-> TRUE, err |-> "", val |-> v]
Raise(e) == [ok |-> FALSE, err |-> e, val |-> None]

RegIdle ==
    /\ regComponents = [r \in SchemaRegs |-> EmptyDict]
    /\ regClassToName = [r \in SchemaRegs |-> [c \in Classes |-> None]]
    /\ clsSchemaName = [c \in Classes |-> None]
    /\ clsOpenapi = [c \in Classes |-> None]

\* SchemaRegistry.register_class_name: the name assigned (name or cls.__name__)
RegisterClassNameComp(c, name) == IF Truthy(name) THEN name ELSE ClassName(c)

\* getattr(cls, "__schema_name__", None) of a class holding no such attribute
\* of its own is the first one found along its method resolution order
Mro(c) == IF c = "Derived" THEN <<"Derived", "Mixin", "Base">> ELSE <<c>>

RECURSIVE GetAttrFrom(_, _, _)
GetAttrFrom(attr, mro, i) ==
    IF i > Len(mro) THEN None
    ELSE IF attr[mro[i]] # None THEN attr[mro[i]]
    ELSE GetAttrFrom(attr, mro, i + 1)

\* getattr(cls, name, None), attr holding each class's own attribute
GetAttr(attr, c) == GetAttrFrom(attr, Mro(c), 1)

\* SchemaRegistry.resolve_name, reading class_to_name c2n and the classes'
\* __schema_name__ attributes sn
ResolveName(obj, c2n, sn) ==
    IF IsStr(obj) THEN Ok(obj)
    ELSE IF IsCls(obj) THEN
        IF c2n[obj[2]] # None THEN Ok(c2n[obj[2]])
        ELSE IF GetAttr(sn, obj[2]) # None THEN Ok(GetAttr(sn, obj[2]))
        ELSE Ok(ClassName(obj[2]))
    ELSE Raise("TypeError")

ResolveNameRegistersFallback(obj, c2n) ==
    IF IsCls(obj) /\ c2n[obj[2]] = None
    THEN [c2n EXCEPT ![obj[2]] = ClassName(obj[2])]
    ELSE c2n

\* what resolve_name leaves in class_to_name: it only reads
ResolveNameLeaves(obj, c2n) == c2n

----------------------------------------------------------------------------
(* FieldDescriptor: schema/fields.py *)

PRIMITIVES ==
    {Str("string"), Str("integer"), Str("number"), Str("boolean"),
     Str("object"), Str("array"), Str("null")}

\* _as_type_list: val is the list of type names
AsTypeList(type_) ==
    IF IsNone(type_) THEN Ok(<<>>)
    ELSE IF IsStr(type_) THEN Ok(<<type_>>)
    ELSE IF IsList(type_) THEN
        IF Len(type_[2]) = 0 THEN Raise("ValueError")
        ELSE IF \E i \in 1..Len(type_[2]) : ~IsStr(type_[2][i])
             THEN Raise("TypeError")
        ELSE Ok(type_[2])
    ELSE Raise("TypeError")

\* _validate_items: the error raised, "" when the items pass
ValidateItems(items) ==
    IF IsRefObj(items) THEN ""
    ELSE IF ~IsDict(items) THEN "TypeError"
    ELSE IF ~Has(items, "type") /\ ~Has(items, "$ref") THEN "ValueError"
    ELSE IF GetOrNone(items, "type") = Str("object") THEN "ValueError"
    ELSE ""

NoMeta ==
    [ref |-> None, type |-> None, description |-> None, required |-> None,
     format |-> None, enum |-> None, example |-> None, default |-> None,
     items |-> None]

FieldOk(meta) == [ok |-> TRUE, err |-> "", meta |-> meta]
FieldRaise(e) == [ok |-> FALSE, err |-> e, meta |-> NoMeta]

\* FieldDescriptor.__init__, the branch taken when ref is given
FieldInitRef(a, c2n, sn) ==
    IF \E x \in {a.type_, a.items, a.properties, a.required_props} : x # None
    THEN FieldRaise("ValueError")
    ELSE LET rn == ResolveName(a.ref, c2n, sn) IN
         IF ~rn.ok THEN FieldRaise(rn.err)
         ELSE FieldOk([ref |-> rn.val, type |-> None,
                       description |-> a.description, required |-> a.required,
                       format |-> a.format_, enum |-> a.enum,
                       example |-> a.example, default |-> a.default,
                       items |-> None])

\* FieldDescriptor.__init__, array items: class items become a $ref dict
NormalizedItems(a, c2n, sn) ==
    IF IsCls(a.items)
    THEN Dict(<< <<"$ref", ComponentRef(ResolveName(a.items, c2n, sn).val)>> >>)
    ELSE a.items

\* the branch taken without ref, had it no check for the name object
FieldInitNoRefObjectAllowed(a, typeList, c2n, sn) ==
    IF \E i \in 1..Len(typeList) : typeList[i] \notin PRIMITIVES
    THEN FieldRaise("ValueError")
    ELSE IF InSeq(Str("array"), typeList) /\ IsNone(a.items)
         THEN FieldRaise("ValueError")
    ELSE LET isArray == InSeq(Str("array"), typeList)
             items == IF isArray THEN NormalizedItems(a, c2n, sn) ELSE a.items
             bad == IF isArray THEN ValidateItems(items) ELSE ""
         IN
         IF bad # "" THEN FieldRaise(bad)
         ELSE IF a.properties # None \/ a.required_props # None
              THEN FieldRaise("ValueError")
         ELSE FieldOk([ref |-> None, type |-> a.type_,
                       description |-> a.description, required |-> a.required,
                       format |-> a.format_, enum |-> a.enum,
                       example |-> a.example, default |-> a.default,
                       items |-> items])

\* FieldDescriptor.__init__, the branch taken without ref
FieldInitNoRef(a, typeList, c2n, sn) ==
    IF \E i \in 1..Len(typeList) : typeList[i] \notin PRIMITIVES
    THEN FieldRaise("ValueError")
    ELSE IF InSeq(Str("object"), typeList) THEN FieldRaise("ValueError")
    ELSE IF InSeq(Str("array"), typeList) /\ IsNone(a.items)
         THEN FieldRaise("ValueError")
    ELSE LET isArray == InSeq(Str("array"), typeList)
             items == IF isArray THEN NormalizedItems(a, c2n, sn) ELSE a.items
             bad == IF isArray THEN ValidateItems(items) ELSE ""
         IN
         IF bad # "" THEN FieldRaise(bad)
         ELSE IF a.properties # None \/ a.required_props # None
              THEN FieldRaise("ValueError")
         ELSE FieldOk([ref |-> None, type |-> a.type_,
                       description |-> a.description, required |-> a.required,
                       format |-> a.format_, enum |-> a.enum,
                       example |-> a.example, default |-> a.default,
                       items |-> items])

\* FieldDescriptor.__init__ under a registry whose class_to_name is c2n
FieldDescriptorInit(a, c2n, sn) ==
    LET tl == AsTypeList(a.type_) IN
    IF ~tl.ok THEN FieldRaise(tl.err)
    ELSE IF a.ref # None THEN FieldInitRef(a, c2n, sn)
    ELSE FieldInitNoRef(a, tl.val, c2n, sn)

\* class_to_name after FieldDescriptor.__init__: resolve_name is called for a
\* ref that passed the conflict check and for class items of an array field
FieldInitLeaves(a, c2n) ==
    LET tl == AsTypeList(a.type_) IN
    IF ~tl.ok THEN c2n
    ELSE IF a.ref # None THEN
        IF \E x \in {a.type_, a.items, a.properties, a.required_props} : x # None
        THEN c2n
        ELSE ResolveNameLeaves(a.ref, c2n)
    ELSE IF \/ \E i \in 1..Len(tl.val) : tl.val[i] \notin PRIMITIVES
            \/ InSeq(Str("object"), tl.val)
            \/ ~InSeq(Str("array"), tl.val)
            \/ ~IsCls(a.items)
         THEN c2n
    ELSE ResolveNameLeaves(a.items, c2n)

\* Ref.to_openapi
RefToOpenapi(r) == Dict(<< <<"$ref", ComponentRef(r[2])>> >>)

PutIf(cond, d, k, v) == IF cond THEN Put(d, k, v) ELSE d

\* FieldDescriptor.to_openapi_property, the branch without ref
PropertyNoRef(m) ==
    LET s1 == PutIf(m.type # None, EmptyDict, "type", m.type)
        s2 == PutIf(Truthy(m.format), s1, "format", m.format)
        s3 == PutIf(Truthy(m.description), s2, "description", m.description)
        s4 == PutIf(m.enum # None, s3, "enum", m.enum)
        s5 == PutIf(m.example # None, s4, "example", m.example)
        s6 == PutIf(m.default # None, s5, "default", m.default)
    IN
    IF InSeq(Str("array"), AsTypeList(m.type).val)
    THEN Put(s6, "items",
             IF IsRefObj(m.items) THEN RefToOpenapi(m.items) ELSE m.items)
    ELSE s6

\* FieldDescriptor.to_openapi_property
ToOpenapiProperty(m) ==
    IF Truthy(m.ref)
    THEN Dict(<< <<"$ref", ComponentRef(m.ref)>> >>)
    ELSE PropertyNoRef(m)

\* the keyword arguments a field() call is given
TypeInputs ==
    {None, Str("string"), Str("array"), Str("object"), Str("bogus"),
     List(<<Str("string"), Str("null")>>), List(<<Str("null"), Str("array")>>),
     List(<<Str("object"), Str("null")>>), List(<<Str("string"), Str("bogus")>>),
     List(<<>>), IntV(1)}

ObjectItems == Dict(<< <<"type", Str("object")>> >>)

NestedObjectItems == Dict(<< <<"type", Str("array")>>, <<"items", ObjectItems>> >>)

ItemsInputs ==
    {None, RefObj(Str("Pet")), Cls("Product"), Str("Pet"), EmptyDict,
     Dict(<< <<"type", Str("string")>> >>),
     ObjectItems,
     Dict(<< <<"$ref", ComponentRef(Str("Pet"))>> >>),
     Dict(<< <<"type", List(<<Str("object"), Str("null")>>)>> >>),
     NestedObjectItems,
     Dict(<< <<"type", Str("string")>>,
             <<"properties", Dict(<< <<"id", Dict(<< <<"type", Str("string")>> >>)>> >>)>> >>)}

RefInputs == {None, Str("Pet"), Str(""), Cls("Product"), IntV(1)}

FieldArgs ==
    [type_ : TypeInputs,
     description : {Str(""), Str("d")},
     required : {Bool(FALSE), Bool(TRUE)},
     format_ : {None, Str("int64")},
     enum : {None, List(<<Str("a")>>)},
     example : {None, Str("e")},
     default : {None, IntV(0)},
     items : ItemsInputs,
     properties : {None, EmptyDict},
     required_props : {None, List(<<Str("id")>>)},
     ref : RefInputs]

NoArgs ==
    [type_ |-> None, description |-> None, required |-> None,
     format_ |-> None, enum |-> None, example |-> None, default |-> None,
     items |-> None, properties |-> None, required_props |-> None,
     ref |-> None]

FieldIdle ==
    /\ fieldArgs = NoArgs
    /\ fieldResult = FieldRaise("")

\* fields.register_schema_class(cls, name), on the current registry
RegisterSchemaClass(c, name) ==
    /\ regClassToName' =
         [regClassToName EXCEPT ![curSchema][c] = RegisterClassNameComp(c, name)]
    /\ lastStep' = "register"
    /\ UNCHANGED <<regComponents, clsSchemaName, clsOpenapi>>

\* field(**a): FieldDescriptor(**a) under the current registry
FieldCall(a) ==
    LET c2n == regClassToName[curSchema]
        r == FieldDescriptorInit(a, c2n, clsSchemaName)
    IN
    /\ fieldArgs' = a
    /\ fieldResult' = r
    /\ regClassToName' =
         [regClassToName EXCEPT ![curSchema] = FieldInitLeaves(a, c2n)]
    /\ lastStep' = IF r.ok THEN "field" ELSE "rejected"
    /\ UNCHANGED <<regComponents, clsSchemaName, clsOpenapi>>

----------------------------------------------------------------------------
(* Class statements and the @schema decorator: fields.py, decorator.py *)

NoBody == [cls |-> "", ns |-> <<>>]

ClassIdle ==
    /\ clsFields = [c \in Classes |-> <<>>]
    /\ clsDeclared = [c \in Classes |-> FALSE]
    /\ body = NoBody

\* the class statement of c starts: its body has an empty namespace
BeginClass(c) ==
    /\ body = NoBody
    /\ ~clsDeclared[c]
    /\ body' = [cls |-> c, ns |-> <<>>]
    /\ lastStep' = "class"
    /\ UNCHANGED <<clsFields, clsDeclared, regVars>>

\* position of `name` in a namespace, 0 when absent
NsIndex(ns, name) ==
    IF \E i \in 1..Len(ns) : ns[i].name = name
    THEN CHOOSE i \in 1..Len(ns) : ns[i].name = name
    ELSE 0

\* namespace[name] = descriptor
NsPut(ns, name, d) ==
    IF NsIndex(ns, name) # 0
    THEN [ns EXCEPT ![NsIndex(ns, name)] = d]
    ELSE Append(ns, d)

\* one line `name = field(**a)` of the body: a rejected call ends the class
\* statement, and no class is created
BodyField(name, a) ==
    LET c2n == regClassToName[curSchema]
        r == FieldDescriptorInit(a, c2n, clsSchemaName)
    IN
    /\ body # NoBody
    /\ Len(body.ns) < MaxFields \/ NsIndex(body.ns, name) # 0
    /\ regClassToName' =
         [regClassToName EXCEPT ![curSchema] = FieldInitLeaves(a, c2n)]
    /\ IF r.ok
       THEN /\ body' = [body EXCEPT !.ns =
                          NsPut(@, name, [name |-> name, args |-> a, meta |-> r.meta])]
            /\ lastStep' = "field"
       ELSE /\ body' = NoBody
            /\ lastStep' = "rejected"
    /\ UNCHANGED <<clsFields, clsDeclared, regComponents, clsSchemaName, clsOpenapi>>

\* the class statement ends: type creation calls __set_name__ on each
\* descriptor in namespace order (FieldDescriptor.__set_name__)
EndClass ==
    /\ body # NoBody
    /\ clsFields' = [clsFields EXCEPT ![body.cls] = body.ns]
    /\ clsDeclared' = [clsDeclared EXCEPT ![body.cls] = TRUE]
    /\ body' = NoBody
    /\ lastStep' = "endclass"
    /\ UNCHANGED regVars

\* a component name as a dict key
NameKey(name) == name[2][1]

RECURSIVE SchemaFieldsFrom(_, _, _)
SchemaFieldsFrom(cf, mro, i) ==
    IF i > Len(mro) THEN <<>>
    ELSE IF cf[mro[i]] # <<>> THEN cf[mro[i]]
    ELSE SchemaFieldsFrom(cf, mro, i + 1)

\* getattr(cls, "__schema_fields__", []), cf holding each class's own list
SchemaFields(c, cf) == SchemaFieldsFrom(cf, Mro(c), 1)

RECURSIVE PreviewProperties(_, _)
\* _preview_object_schema: the properties dict after the first n fields
PreviewProperties(fields, n) ==
    IF n = 0 THEN EmptyDict
    ELSE Put(PreviewProperties(fields, n - 1), fields[n].name,
             ToOpenapiProperty(fields[n].meta))

RECURSIVE PreviewRequired(_, _)
\* _preview_object_schema: the required list after the first n fields
PreviewRequired(fields, n) ==
    IF n = 0 THEN <<>>
    ELSE IF Truthy(fields[n].meta.required)
         THEN Append(PreviewRequired(fields, n - 1), Str(fields[n].name))
         ELSE PreviewRequired(fields, n - 1)

PreviewAlwaysRequired(fields) ==
    Dict(<< <<"type", Str("object")>>,
            <<"properties", PreviewProperties(fields, Len(fields))>>,
            <<"required", List(PreviewRequired(fields, Len(fields)))>> >>)

\* _preview_object_schema(cls), fields being cls.__schema_fields__
PreviewObjectSchema(fields) ==
    LET properties == PreviewProperties(fields, Len(fields))
        required == PreviewRequired(fields, Len(fields))
        schema == Dict(<< <<"type", Str("object")>>, <<"properties", properties>> >>)
    IN
    IF Len(required) > 0 THEN Put(schema, "required", List(required)) ELSE schema

\* schema(): a positional name together with name= is refused
SchemaRefuses(positional, name) == positional # None /\ name # None

\* schema(...)(cls): positional is a first argument that is a string, name
\* the keyword, registry the keyword (a registry id, or "" for none)
SchemaCall(c, positional, name, registry) ==
    LET effective == IF Truthy(name) THEN name ELSE positional
        reg == IF registry # "" THEN registry ELSE curSchema
        comp == IF Truthy(effective) THEN effective ELSE ClassName(c)
        objSchema == PreviewObjectSchema(SchemaFields(c, clsFields))
    IN
    /\ body = NoBody
    /\ clsDeclared[c]
    /\ IF SchemaRefuses(positional, name)
       THEN /\ lastStep' = "refused"
            /\ UNCHANGED regVars
       ELSE /\ regClassToName' =
                 [regClassToName EXCEPT ![reg][c] = RegisterClassNameComp(c, comp)]
            /\ regComponents' =
                 [regComponents EXCEPT ![reg] = Put(@, NameKey(comp), objSchema)]
            /\ clsSchemaName' = [clsSchemaName EXCEPT ![c] = comp]
            /\ clsOpenapi' = [clsOpenapi EXCEPT ![c] = objSchema]
            /\ lastStep' = "schema"
    /\ UNCHANGED classVars

\* field() with every keyword at its default
DefaultArgs ==
    [type_ |-> None, description |-> Str(""), required |-> Bool(FALSE),
     format_ |-> None, enum |-> None, example |-> None, default |-> None,
     items |-> None, properties |-> None, required_props |-> None,
     ref |-> None]

FieldNames == {"id", "items", "owner"}

\* the field() calls a class body is written from
ObjectKit ==
    {[DefaultArgs EXCEPT !.type_ = Str("string"), !.required = Bool(TRUE)],
     [DefaultArgs EXCEPT !.type_ = Str("string"), !.description = Str("d")],
     [DefaultArgs EXCEPT !.type_ = Str("array"), !.required = Bool(TRUE),
                         !.items = Dict(<< <<"type", Str("string")>> >>)],
     [DefaultArgs EXCEPT !.type_ = Str("array"), !.items = Cls("Product")],
     [DefaultArgs EXCEPT !.ref = Str("Pet"), !.required = Bool(TRUE)],
     [DefaultArgs EXCEPT !.type_ = Str("array"), !.items = NestedObjectItems],
     [DefaultArgs EXCEPT !.type_ = Str("array"),
                         !.items = Dict(<< <<"$ref", ComponentRef(Str("Tag"))>>,
                                           <<"type", Str("string")>> >>)],
     [DefaultArgs EXCEPT !.type_ = Str("object")]}

----------------------------------------------------------------------------
(* Responses and examples: path/dsl.py, path/model.py, path/export.py *)

MaxResponses == 3
MaxExamples == 3

JsonType == "application/json"
XmlType == "application/xml"

\* the sequences over S of length at most n
SeqsUpTo(S, n) == UNION {[1..k -> S] : k \in 0..n}

\* dsl.MediaTypeSpec
MediaTypeSpec(schema, content_type) ==
    [schema |-> schema, content_type |-> content_type]

\* dsl.json_media
JsonMedia(schema) == MediaTypeSpec(schema, JsonType)

\* dsl.response_spec(status, desc=) without media
BareResponseSpec(status, desc) == [status |-> status, media |-> <<>>, desc |-> desc]

\* dsl.response_spec(status, media, desc=, extra_types=)
ResponseSpec(status, media, desc, extra_types) ==
    [status |-> status,
     media |-> <<media>> \o [i \in 1..Len(extra_types) |->
                               MediaTypeSpec(media.schema, extra_types[i])],
     desc |-> desc]

\* model.SchemaRef
SchemaRef(ref, raw) == [ref |-> ref, raw |-> raw]

\* model.SchemaRef.to_schema
SchemaRefToSchema(sr) ==
    IF Truthy(sr.ref) THEN Dict(<< <<"$ref", sr.ref>> >>)
    ELSE IF Truthy(sr.raw) THEN sr.raw
    ELSE EmptyDict

\* export._to_schema_ref, sn holding the classes' __schema_name__
ToSchemaRef(x, sn) ==
    IF IsDict(x) THEN
        IF Has(x, "$ref") THEN SchemaRef(Get(x, "$ref"), None)
        ELSE SchemaRef(None, x)
    ELSE IF IsCls(x) THEN
        SchemaRef(ComponentRef(IF GetAttr(sn, x[2]) # None
                               THEN GetAttr(sn, x[2]) ELSE ClassName(x[2])),
                  None)
    ELSE IF IsStr(x) THEN SchemaRef(x, None)
    ELSE SchemaRef(None, Dict(<< <<"type", Str("object")>> >>))

\* model.MediaType(schema=...)
MediaType(schemaRef) == [schema |-> schemaRef, examples |-> None, example |-> None]

\* model.MediaType.to_dict
MediaTypeToDict(m) ==
    LET s1 == Dict(<< <<"schema", SchemaRefToSchema(m.schema)>> >>)
        s2 == PutIf(m.example # None, s1, "example", m.example)
    IN PutIf(m.examples # None, s2, "examples", m.examples)

RECURSIVE MediaContent(_, _, _)
\* export._response_to_model: the content dict after the first n media specs
MediaContent(media, n, sn) ==
    IF n = 0 THEN EmptyDict
    ELSE Put(MediaContent(media, n - 1, sn), media[n].content_type,
             MediaType(ToSchemaRef(media[n].schema, sn)))

\* export._response_to_model
ResponseToModel(r, sn) ==
    IF Len(r.media) = 0
    THEN [description |-> r.desc, headers |-> None, content |-> None]
    ELSE [description |-> r.desc, headers |-> None,
          content |-> MediaContent(r.media, Len(r.media), sn)]

\* model.Response.to_dict
ResponseToDict(resp) ==
    LET s1 == Dict(<< <<"description", resp.description>> >>)
        s2 == PutIf(Truthy(resp.headers), s1, "headers", resp.headers)
    IN
    IF Truthy(resp.content)
    THEN Put(s2, "content",
             Dict([i \in 1..Len(resp.content[2]) |->
                     <<resp.content[2][i][1], MediaTypeToDict(resp.content[2][i][2])>>]))
    ELSE s2

RECURSIVE BuildResponses(_, _, _)
\* export._collect_operations_from_class: op.responses after the first n
\* response specs, op.responses[str(rs.status)] = _response_to_model(rs)
BuildResponses(specs, n, sn) ==
    IF n = 0 THEN EmptyDict
    ELSE Put(BuildResponses(specs, n - 1, sn), ToString(specs[n].status),
             ResponseToModel(specs[n], sn))

\* export._apply_examples, the loop body: the response after val is applied
ApplyExample(resp, val) ==
    LET content == resp.content IN
    IF ~Truthy(content) THEN resp
    ELSE IF Len(content[2]) = 1
    THEN [resp EXCEPT !.content =
            Dict(<< <<content[2][1][1],
                      [content[2][1][2] EXCEPT !.example = val]>> >>)]
    ELSE IF IsDict(val)
    THEN [resp EXCEPT !.content =
            Dict([i \in 1..Len(content[2]) |->
                    IF Has(val, content[2][i][1])
                    THEN <<content[2][i][1],
                           [content[2][i][2] EXCEPT
                              !.example = Get(val, content[2][i][1])]>>
                    ELSE content[2][i]])]
    ELSE resp

RECURSIVE ApplyExamplesUpTo(_, _, _, _)
\* export._apply_examples: op.responses after the first n elements of ret
ApplyExamplesUpTo(responses, statuses, ret, n) ==
    IF n = 0 THEN responses
    ELSE LET before == ApplyExamplesUpTo(responses, statuses, ret, n - 1) IN
         IF n > Len(statuses) THEN before
         ELSE Put(before, statuses[n], ApplyExample(Get(before, statuses[n]), ret[n]))

\* export._apply_examples(op, resp_specs, ret): op.responses afterwards
ApplyExamples(responses, resp_specs, ret) ==
    IF ~IsList(ret) THEN responses
    ELSE ApplyExamplesUpTo(responses, Keys(responses), ret[2], Len(ret[2]))

OpIdle ==
    /\ opPhase = "idle"
    /\ opSpecs = <<>>
    /\ opRet = None
    /\ opResponses = EmptyDict

\* export_paths_dict, for one method: _collect_operations_from_class builds
\* the Operation from the method's declared responses
CollectOperation(specs) ==
    /\ opPhase = "idle"
    /\ opSpecs' = specs
    /\ opResponses' = BuildResponses(specs, Len(specs), clsSchemaName)
    /\ opPhase' = "collected"
    /\ lastStep' = "collect"
    /\ UNCHANGED opRet

\* export_paths_dict, for one method: the method is called on a new instance
\* (ret is None when it raises) and a list it returns is mapped on the responses
InvokeAndApply(ret) ==
    /\ opPhase = "collected"
    /\ opRet' = ret
    /\ opResponses' =
         IF IsList(ret) THEN ApplyExamples(opResponses, opSpecs, ret) ELSE opResponses
    /\ opPhase' = "applied"
    /\ lastStep' = "apply"
    /\ UNCHANGED opSpecs

\* the responses a method is declared with
RespKit ==
    {ResponseSpec(200, JsonMedia(Dict(<< <<"type", Str("string")>> >>)), Str("ok"), <<>>),
     ResponseSpec(200, JsonMedia(Dict(<< <<"type", Str("integer")>> >>)), Str("count"),
                  <<XmlType>>),
     ResponseSpec(404, JsonMedia(Cls("Product")), Str(""), <<>>),
     BareResponseSpec(304, Str("not modified"))}

\* the elements of a returned example list
ExampleKit ==
    {None, Str("ex"),
     Dict(<< <<JsonType, IntV(1)>>, <<"text/plain", Str("one")>> >>)}

----------------------------------------------------------------------------
(* Relative links and the reference-rewrite walk: tools/split_refs.py, *)
(* tools/exporter.py.  A Path is the tuple of its segments below "/".   *)

MaxTreeDepth == 2

DocsRoot == <<"docs">>

\* Path.parent
Parent(p) == SubSeq(p, 1, Len(p) - 1)

\* Path.with_name
WithName(p, name) == Append(Parent(p), name)

\* the number of leading segments two paths share
CommonLen(a, b) ==
    LET m == IF Len(a) < Len(b) THEN Len(a) ELSE Len(b)
        agree == {k \in 0..m : \A i \in 1..k : a[i] = b[i]}
    IN CHOOSE k \in agree : \A j \in agree : j <= k

\* os.path.relpath(to, start=start), "/"-split
RelPath(to, start) ==
    LET c == CommonLen(to, start)
        rel == [i \in 1..(Len(start) - c) |-> ".."] \o SubSeq(to, c + 1, Len(to))
    IN IF rel = <<>> THEN <<".">> ELSE rel

NoCall == [fn |-> "", args |-> <<>>]

CallIdle ==
    /\ lastCall = NoCall
    /\ lastResult = None

\* SchemaRegistry.__init__: each registry's components is a dict of its own
LiveIdle ==
    /\ compObj = [r \in SchemaRegs |->
                    CHOOSE i \in 1..3 : <<"rootS", "sA", "sB">>[i] = r]
    /\ heap = [i \in 1..3 |-> EmptyDict]
    /\ held = [r \in SchemaRegs |-> 0]

\* s.startswith(".")
StartsWithDot(s) == Len(s) > 0 /\ SubSeq(s, 1, 1) = "."

\* split_refs.rel_ref: the relative path begins with its first segment
RelRef(from_file, to_file) ==
    LET rel == RelPath(to_file, Parent(from_file)) IN
    StrP(IF StartsWithDot(rel[1]) THEN rel ELSE <<".">> \o rel)

\* one call rel_ref(from_file, to_file)
RelRefCall(from_file, to_file) ==
    /\ lastCall = NoCall
    /\ lastCall' = [fn |-> "rel_ref", args |-> <<from_file, to_file>>]
    /\ lastResult' = RelRef(from_file, to_file)
    /\ lastStep' = "rel_ref"

MaxDirDepth == 2

\* the directory and file names of a docs tree
DirNames == {"docs", "schemas", ".private"}
YamlNames == {"openapi.yaml", "Product.yaml", ".hidden.yaml"}

\* the files rel_ref is called on
LinkFiles == {d \o <<f>> : d \in SeqsUpTo(DirNames, MaxDirDepth), f \in YamlNames}

\* ref.startswith("#/components/schemas/")
StartsWithComponents(ref) ==
    /\ Len(ref[2]) >= 4
    /\ SubSeq(ref[2], 1, 3) = <<"#", "components", "schemas">>

\* ref.split("/")[-1]
LastSegment(ref) == ref[2][Len(ref[2])]

RECURSIVE WalkRewrite(_, _, _)
\* exporter._walk_rewrite(obj, this_yaml_path, name_to_target)
WalkRewrite(obj, this_yaml_path, name_to_target) ==
    IF IsDict(obj) THEN
        IF /\ Has(obj, "$ref")
           /\ IsStr(Get(obj, "$ref"))
           /\ StartsWithComponents(Get(obj, "$ref"))
           /\ Has(name_to_target, LastSegment(Get(obj, "$ref")))
        THEN Put(obj, "$ref",
                 RelRef(this_yaml_path,
                        Get(name_to_target, LastSegment(Get(obj, "$ref")))))
        ELSE Dict([i \in 1..Len(obj[2]) |->
                     <<obj[2][i][1],
                       WalkRewrite(obj[2][i][2], this_yaml_path, name_to_target)>>])
    ELSE IF IsList(obj) THEN
        List([i \in 1..Len(obj[2]) |->
                WalkRewrite(obj[2][i], this_yaml_path, name_to_target)])
    ELSE obj

NoWalk == [obj |-> None, this_yaml_path |-> <<>>, name_to_target |-> EmptyDict]

WalkIdle ==
    /\ walkArgs = NoWalk
    /\ walkOut = None

\* one call _walk_rewrite(obj, this_yaml_path, name_to_target)
WalkCall(obj, this_yaml_path, name_to_target) ==
    /\ walkArgs = NoWalk
    /\ walkArgs' = [obj |-> obj, this_yaml_path |-> this_yaml_path,
                    name_to_target |-> name_to_target]
    /\ walkOut' = WalkRewrite(obj, this_yaml_path, name_to_target)
    /\ lastStep' = "walk"

\* the values a "$ref" key is given
RefValues ==
    {ComponentRef(Str("Product")), ComponentRef(Str("Ghost")),
     StrP(<<"#", "components", "schemas", "Category", "properties", "Product">>),
     StrP(<<"#", "components", "parameters", "Product">>),
     StrP(<<".", "Product.yaml">>),
     IntV(1)}

RECURSIVE Trees(_)
\* the trees of depth at most n the walk is given
Trees(n) ==
    IF n = 0
    THEN {Dict(<< <<"$ref", r>> >>) : r \in RefValues}
           \cup {Str("x"), Dict(<< <<"type", Str("string")>> >>)}
    ELSE LET below == Trees(n - 1) IN
         below
           \cup {Dict(<< <<"type", Str("array")>>, <<"items", t>> >>) : t \in below}
           \cup {List(<<t, Str("x")>>) : t \in below}
           \cup {Dict(<< <<"description", t>>, <<"$ref", r>> >>) :
                   t \in below, r \in RefValues}

\* the files the walk is run for, and the name -> target maps it is given
WalkFiles ==
    {DocsRoot \o <<"schemas", "Category.yaml">>,
     DocsRoot \o <<"paths", "shop", "path_item.yaml">>}

WalkTargets ==
    {Dict(<< <<"Product", DocsRoot \o <<"schemas", "Product.yaml">> >> >>),
     Dict(<< <<"Product", DocsRoot \o <<"schemas", "shop", "Product.yaml">> >>,
             <<"Category", DocsRoot \o <<"schemas", "Category.yaml">> >> >>)}

----------------------------------------------------------------------------
(* Path registry, location hints, documents and the docs tree *)

PathClasses == {"ProductsPath", "OrdersPath"}

\* with AdminPath, a second class decorated with the URL of ProductsPath
AllPathClasses == PathClasses \cup {"AdminPath"}

\* a function of a path class, as dir(cls) meets it: its attribute name, the
\* __http_method__ its decorator stored ("" when it has none), and whether it
\* is the class's alternative function
Fn(attr, http, alt) == [attr |-> attr, http |-> http, alt |-> alt]

\* @get def get(self)
GetFn == Fn("get", "get", FALSE)

NoFiles == <<>>

NoRun ==
    [done |-> FALSE, run |-> 0, classes |-> <<>>, paths |-> EmptyDict,
     hints |-> [c \in Classes \cup AllPathClasses |-> None], files |-> NoFiles,
     targets |-> EmptyDict,
     document |-> [paths |-> EmptyDict, schemas |-> EmptyDict]]

\* a class @path has not decorated
NoPathAttrs == [path_params |-> <<>>, op_params |-> <<>>, op_request |-> None,
                raises |-> "", fns |-> <<GetFn>>]

PathIdle ==
    /\ pathMap = [r \in PathRegs |-> EmptyDict]
    /\ clsSource = [c \in Classes \cup AllPathClasses |-> None]
    /\ clsPathAttrs = [pc \in AllPathClasses |-> NoPathAttrs]

DocIdle ==
    assembled = [built |-> FALSE, classes |-> <<>>, doc |-> EmptyDict,
                 class_to_name |-> [c \in Classes |-> None]]

SplitIdle ==
    /\ fs = NoFiles
    /\ lastRun = NoRun
    /\ prevRun = NoRun

----------------------------------------------------------------------------
(* Path declarations and document assembly: path/dsl.py, path/export.py, *)
(* tools/exporter.py.  The functions of one path class declare the same   *)
(* responses, parameters and request body.                                *)

\* the URL a path class is decorated with
PathUrl(pc) == IF pc \in {"ProductsPath", "AdminPath"} THEN "/products" ELSE "/orders"

\* @get(summary=..., responses=[...]) on its method
PathSummary(pc) ==
    IF pc = "ProductsPath" THEN Str("List products")
    ELSE IF pc = "AdminPath" THEN Str("Admin products")
    ELSE None

PathResponses(pc) ==
    IF pc = "ProductsPath"
    THEN <<ResponseSpec(200, JsonMedia(Cls("Product")), Str("ok"), <<>>),
           BareResponseSpec(404, Str("missing"))>>
    ELSE IF pc = "AdminPath"
    THEN <<ResponseSpec(200, JsonMedia(Dict(<< <<"type", Str("string")>> >>)),
                        Str("ok"), <<>>)>>
    ELSE <<ResponseSpec(201, JsonMedia(Dict(<< <<"type", Str("string")>> >>)),
                        Str("created"), <<>>)>>

\* what the method returns when called
PathReturn(pc) ==
    IF pc = "ProductsPath"
    THEN List(<<Dict(<< <<"id", Str("p1")>> >>), None>>)
    ELSE IF pc = "AdminPath" THEN List(<<Str("admin")>>)
    ELSE None

\* the summary of a function's decorator, and what the function returns: the
\* alternative function of a class has a summary and a return of its own
FnSummary(pc, fn) == IF fn.alt THEN Str("alt") ELSE PathSummary(pc)

FnReturn(pc, fn) == IF fn.alt THEN List(<<Str("alt")>>) ELSE PathReturn(pc)

\* the classes PathRegistry._map binds to url
BoundClasses(pmap, url) == IF Has(pmap, url) THEN Get(pmap, url) ELSE <<>>

\* the URLs the path registry is given
PathUrls == {"/products", "/orders"}

\* PathRegistry.ensure(url) on the current path registry
EnsureUrl(url) ==
    /\ ~Has(pathMap[curPath], url)
    /\ pathMap' = [pathMap EXCEPT ![curPath] = Put(@, url, <<>>)]
    /\ lastStep' = "ensure"
    /\ UNCHANGED <<clsSource, clsPathAttrs>>

\* the class statement of pc and dsl.path(url, params=...)(cls): the method's
\* @get has stored __op_params__ and __op_request__, the decorator stores
\* __path_params__, then reg.ensure(url), reg.add_class(url, cls); attrs.raises
\* tells whether cls() ("init") or the method ("method") raises when called
PathDeclWith(pc, attrs) ==
    /\ ~InSeq(pc, BoundClasses(pathMap[curPath], PathUrl(pc)))
    /\ pathMap' = [pathMap EXCEPT ![curPath] =
                     Put(@, PathUrl(pc), Append(BoundClasses(@, PathUrl(pc)), pc))]
    /\ clsPathAttrs' = [clsPathAttrs EXCEPT ![pc] = attrs]
    /\ lastStep' = "path"
    /\ UNCHANGED clsSource

\* a path class without parameters and request body whose calls return
PathDecl(pc) == PathDeclWith(pc, NoPathAttrs)

\* dsl.ParamSpec, as path_param/query_param build it
ParamSpec(name, in_, typ, fmt, required, desc, default, example) ==
    [name |-> name, in_ |-> in_, typ |-> typ, fmt |-> fmt, required |-> required,
     desc |-> desc, default |-> default, example |-> example]

\* dsl.path_param(name, typ)
PathParam(name, typ) == ParamSpec(name, "path", typ, None, Bool(TRUE), Str(""), None, None)

\* dsl.query_param(name, typ, fmt=, desc=, default=)
QueryParam(name, typ, fmt, desc, default) ==
    ParamSpec(name, "query", typ, fmt, Bool(FALSE), desc, default, None)

\* export._param_to_model
ParamToModel(p) ==
    LET s1 == Dict(<< <<"type", Str(p.typ)>> >>)
        s2 == PutIf(Truthy(p.fmt), s1, "format", p.fmt)
        s3 == PutIf(p.default # None, s2, "default", p.default)
    IN [name |-> p.name, in_ |-> p.in_, required |-> Bool(Truthy(p.required)),
        schema |-> s3,
        description |-> IF Truthy(p.desc) THEN p.desc ELSE Str(""),
        example |-> p.example, deprecated |-> Bool(FALSE)]

\* model.Parameter.to_dict
ParameterToDict(q) ==
    LET d1 == Dict(<< <<"name", Str(q.name)>>, <<"in", Str(q.in_)>>,
                      <<"required", q.required>>, <<"schema", q.schema>> >>)
        d2 == PutIf(Truthy(q.description), d1, "description", q.description)
        d3 == PutIf(q.example # None, d2, "example", q.example)
    IN PutIf(Truthy(q.deprecated), d3, "deprecated", Bool(TRUE))

\* [p.to_dict() for p in parameters]
ParametersToList(params) == List([i \in 1..Len(params) |-> ParameterToDict(params[i])])

\* merged without the operation's parameters that repeat a path parameter's
\* name and location
MergedParamsDedup(path_params, method_params) ==
    LET Repeats(p) == \E i \in 1..Len(path_params) :
                         /\ path_params[i].name = p.name
                         /\ path_params[i].in_ = p.in_
        Fresh(p) == ~Repeats(p)
        all == path_params \o SelectSeq(method_params, Fresh)
    IN [i \in 1..Len(all) |-> ParamToModel(all[i])]

\* _collect_operations_from_class: merged, _param_to_model of every element
\* of path_params + method_params
MergedParams(path_params, method_params) ==
    LET all == path_params \o method_params
    IN [i \in 1..Len(all) |-> ParamToModel(all[i])]

\* dsl.request_body(media, required=, desc=)
RequestBodySpec(media, required, desc) ==
    <<"RequestBodySpec", [media |-> media, required |-> required, desc |-> desc]>>

\* export._request_to_model
RequestToModel(rb, sn) ==
    IF rb = None THEN None
    ELSE <<"RequestBody",
           [required |-> rb[2].required,
            description |-> IF Truthy(rb[2].desc) THEN rb[2].desc ELSE Str(""),
            content |-> Dict(<< <<rb[2].media.content_type,
                                  MediaType(ToSchemaRef(rb[2].media.schema, sn))>> >>)]>>

\* model.RequestBody.to_dict
RequestBodyToDict(rb) ==
    Dict(<< <<"required", rb[2].required>>, <<"description", rb[2].description>>,
            <<"content",
              Dict([i \in 1..Len(rb[2].content[2]) |->
                      <<rb[2].content[2][i][1],
                        MediaTypeToDict(rb[2].content[2][i][2])>>])>> >>)

\* the attribute of the class named attr, as getattr(inst, attr) finds it;
\* <<>> when the class has none
AttrNamed(attrs, attr) ==
    SelectSeq(attrs.fns, LAMBDA fn : fn.attr = attr)

\* the method returning although it raised
InvokeIgnoringRaise(pc, attrs, method) ==
    IF AttrNamed(attrs, method) = <<>> THEN None
    ELSE FnReturn(pc, AttrNamed(attrs, method)[1])

\* export_paths_dict: inst = cls(); ret = getattr(inst, method)(), and
\* ret = None when either raises an Exception (an AttributeError when the
\* class has no attribute named as the HTTP method)
Invoke(pc, attrs, method) ==
    IF attrs.raises # "" THEN None
    ELSE IF AttrNamed(attrs, method) = <<>> THEN None
    ELSE FnReturn(pc, AttrNamed(attrs, method)[1])

\* model.Operation.to_dict; no operation of the model has an operationId, a
\* description or tags
OperationToDict(op) ==
    LET s1 == Dict(<< <<"responses",
                        Dict([i \in 1..Len(op.responses[2]) |->
                                <<op.responses[2][i][1],
                                  ResponseToDict(op.responses[2][i][2])>>])>> >>)
        s2 == PutIf(Truthy(op.summary), s1, "summary", op.summary)
        s3 == PutIf(Len(op.parameters) > 0, s2, "parameters",
                    ParametersToList(op.parameters))
    IN IF op.requestBody # None
       THEN Put(s3, "requestBody", RequestBodyToDict(op.requestBody))
       ELSE s3

\* export_paths_dict, for one decorated function fn of a class: the Operation
\* _collect_operations_from_class builds, with the returned examples mapped
OperationOf(pc, fn, sn) ==
    LET specs == PathResponses(pc)
        attrs == clsPathAttrs[pc]
        built == BuildResponses(specs, Len(specs), sn)
        WithExamples(ret) == IF IsList(ret) THEN ApplyExamples(built, specs, ret)
                             ELSE built
    IN [summary |-> FnSummary(pc, fn),
        parameters |-> MergedParams(attrs.path_params, attrs.op_params),
        requestBody |-> RequestToModel(attrs.op_request, sn),
        responses |-> WithExamples(Invoke(pc, attrs, fn.http))]

RECURSIVE ClassMethodsFirstKept(_, _, _, _)
\* item.methods, had the first operation declared for a method been kept
ClassMethodsFirstKept(pc, n, methods, sn) ==
    IF n = 0 THEN methods
    ELSE LET fn == clsPathAttrs[pc].fns[n]
             before == ClassMethodsFirstKept(pc, n - 1, methods, sn)
         IN IF fn.http = "" \/ Has(before, fn.http) THEN before
            ELSE Put(before, fn.http, OperationOf(pc, fn, sn))

RECURSIVE ClassMethods(_, _, _, _)
\* export_paths_dict: item.methods, from methods, after the first n functions
\* of class pc in dir(cls) order; a function without __http_method__ is skipped
ClassMethods(pc, n, methods, sn) ==
    IF n = 0 THEN methods
    ELSE LET fn == clsPathAttrs[pc].fns[n]
             before == ClassMethods(pc, n - 1, methods, sn)
         IN IF fn.http = "" THEN before
            ELSE Put(before, fn.http, OperationOf(pc, fn, sn))

RECURSIVE PathItemMethods(_, _, _)
\* export_paths_dict: item.methods after the first n classes bound to the URL
PathItemMethods(classes, n, sn) ==
    IF n = 0 THEN EmptyDict
    ELSE ClassMethods(classes[n], Len(clsPathAttrs[classes[n]].fns),
                      PathItemMethods(classes, n - 1, sn), sn)

\* model.PathItem.to_dict
PathItemToDict(parameters, methods) ==
    Dict((IF Len(parameters) > 0
          THEN << <<"parameters", ParametersToList(parameters)>> >> ELSE <<>>)
         \o [i \in 1..Len(methods[2]) |->
               <<methods[2][i][1], OperationToDict(methods[2][i][2])>>])

RECURSIVE PathItemParametersMerged(_)
\* item.parameters, had the path parameters of every bound class been merged
PathItemParametersMerged(classes) ==
    IF Len(classes) = 0 THEN <<>>
    ELSE LET path_params == clsPathAttrs[classes[Len(classes)]].path_params
         IN PathItemParametersMerged(SubSeq(classes, 1, Len(classes) - 1))
            \o [i \in 1..Len(path_params) |-> ParamToModel(path_params[i])]

\* export_paths_dict: item.parameters, the first bound class's path parameters
PathItemParameters(classes) ==
    IF Len(classes) = 0 THEN <<>>
    ELSE LET path_params == clsPathAttrs[classes[1]].path_params
         IN [i \in 1..Len(path_params) |-> ParamToModel(path_params[i])]

\* export_paths_dict, under a path registry whose _map is pmap
ExportPathsDict(pmap, sn) ==
    Dict([i \in 1..Len(pmap[2]) |->
            <<pmap[2][i][1],
              PathItemToDict(PathItemParameters(pmap[2][i][2]),
                             PathItemMethods(pmap[2][i][2], Len(pmap[2][i][2]), sn))>>])

\* SchemaRegistry(): a new registry, beside what the classes carry
FreshRegistry(sn, openapi) ==
    [components |-> EmptyDict, class_to_name |-> [c \in Classes |-> None],
     schema_name |-> sn, openapi |-> openapi]

\* schema(name=comp, registry=reg)(cls), reg and the class attributes held in st
Decorate(c, comp, st, cf) ==
    LET obj_schema == PreviewObjectSchema(SchemaFields(c, cf)) IN
    [components |-> Put(st.components, NameKey(comp), obj_schema),
     class_to_name |-> [st.class_to_name EXCEPT ![c] = RegisterClassNameComp(c, comp)],
     schema_name |-> [st.schema_name EXCEPT ![c] = comp],
     openapi |-> [st.openapi EXCEPT ![c] = obj_schema]]

\* exporter._ensure_registered(cls, reg)
EnsureRegistered(c, st, cf) ==
    LET comp_name == IF Truthy(GetAttr(st.schema_name, c))
                     THEN GetAttr(st.schema_name, c) ELSE ClassName(c)
    IN IF Has(st.components, NameKey(comp_name)) THEN st
       ELSE Decorate(c, comp_name, st, cf)

RECURSIVE EnsureAll(_, _, _, _)
\* for cls in classes: _ensure_registered(cls, reg), the first n classes
EnsureAll(classes, n, st, cf) ==
    IF n = 0 THEN st
    ELSE EnsureRegistered(classes[n], EnsureAll(classes, n - 1, st, cf), cf)

\* the info block the documents are built with
Info == Dict(<< <<"title", Str("Shop")>>, <<"version", Str("1")>> >>)

\* exporter.build_openapi_document(info=Info, schema_classes=classes,
\* registry=registry), registry a registry id or "" for none: the paths are
\* exported first, then, if schema_classes is not empty,
\* build_components_schemas registers the classes and its result is merged in
BuildOpenapiDocument(classes, registry) ==
    LET paths == ExportPathsDict(pathMap[curPath], clsSchemaName)
        st0 == IF registry = ""
               THEN FreshRegistry(clsSchemaName, clsOpenapi)
               ELSE [components |-> regComponents[registry],
                     class_to_name |-> regClassToName[registry],
                     schema_name |-> clsSchemaName, openapi |-> clsOpenapi]
        st == EnsureAll(classes, Len(classes), st0, clsFields)
        stitched == Dict(<< <<"openapi", Str("3.0.1")>>, <<"info", Info>>,
                            <<"paths", paths>> >>)
        doc == IF Len(classes) > 0
               THEN Put(stitched, "components",
                        Dict(<< <<"schemas", st.components>> >>))
               ELSE stitched
    IN
    /\ body = NoBody
    /\ ~assembled.built
    /\ \A i \in 1..Len(classes) : clsDeclared[classes[i]]
    /\ assembled' = [built |-> TRUE, classes |-> classes, doc |-> doc,
                     class_to_name |-> st.class_to_name]
    /\ clsSchemaName' = st.schema_name
    /\ clsOpenapi' = st.openapi
    /\ IF registry = ""
       THEN UNCHANGED <<regComponents, regClassToName>>
       ELSE /\ regComponents' = [regComponents EXCEPT ![registry] = st.components]
            /\ regClassToName' = [regClassToName EXCEPT ![registry] = st.class_to_name]
    /\ lastStep' = "build"

\* the names and field() calls the class bodies of a declaration run hold
DeclNames(c) == IF c = "Product" THEN {"id"} ELSE {"items", "owner"}

DeclKit(c) ==
    IF c = "Product"
    THEN {[DefaultArgs EXCEPT !.type_ = Str("string"), !.required = Bool(TRUE)]}
    ELSE {[DefaultArgs EXCEPT !.type_ = Str("array"), !.items = Cls("Product")],
          [DefaultArgs EXCEPT !.ref = Cls("Product")],
          [DefaultArgs EXCEPT !.type_ = Str("array"), !.items = Cls("Product"),
                              !.properties = EmptyDict],
          [DefaultArgs EXCEPT !.ref = IntV(1)]}

----------------------------------------------------------------------------
(* The split pipeline: tools/split_refs.py, tools/exporter.py, tools/cli.py. *)
(* Nothing in the source sets __schema_file_id__ or __path_file_id__, so a   *)
(* schema's file id is its component name and a path's is "path_item".       *)

MaxRuns == 2

\* a source-location string, by the segments of the path it names
PathV(segs) == <<"path", segs>>

\* file_id + ".yaml"
FileName(file_id) == file_id \o ".yaml"

\* the file ids the pipeline can meet
FileIds == Classes \cup {"path_item", "openapi"}

\* Path.stem of a file the pipeline wrote
Stem(p) == CHOOSE s \in FileIds : FileName(s) = p[Len(p)]

\* split_refs._rel_under(base, file_path)
RelUnder(base, file_path) ==
    IF ~Truthy(file_path) THEN None
    ELSE IF /\ Len(file_path[2]) >= Len(base)
            /\ SubSeq(file_path[2], 1, Len(base)) = base
         THEN PathV(SubSeq(file_path[2], Len(base) + 1, Len(file_path[2])))
    ELSE None

\* schema_target_path ignoring the hint: always the fallback
SchemaTargetPathFlat(docs_root, schema_source, file_id) ==
    docs_root \o <<"schemas", FileName(file_id)>>

\* split_refs.schema_target_path
SchemaTargetPath(docs_root, schema_source, file_id) ==
    LET under == RelUnder(docs_root \o <<"schemas">>, schema_source)
        rel == IF under # None THEN under[2] ELSE <<FileName(file_id)>>
    IN WithName(docs_root \o <<"schemas">> \o rel, FileName(file_id))

\* split_refs.path_target_path
PathTargetPath(docs_root, path_source, file_id) ==
    LET under == RelUnder(docs_root \o <<"paths">>, path_source)
        rel == IF under # None THEN under[2] ELSE <<FileName(file_id)>>
    IN WithName(docs_root \o <<"paths">> \o rel, FileName(file_id))

\* next((c for c in classes if getattr(c, "__schema_name__", c.__name__)
\* == name), None), "" standing for None
FirstClassNamed(classes, name, sn) ==
    LET NameOf(c) == IF GetAttr(sn, c) # None THEN GetAttr(sn, c) ELSE ClassName(c)
        hits == {i \in 1..Len(classes) : NameOf(classes[i]) = Str(name)}
    IN IF hits = {} THEN ""
       ELSE classes[CHOOSE i \in hits : \A j \in hits : i <= j]

RECURSIVE SchemaFiles(_, _, _)
\* export_schemas_split_map: files after the first n entries of name_to_target
SchemaFiles(name_to_target, components, n) ==
    IF n = 0 THEN EmptyDict
    ELSE LET name == name_to_target[2][n][1]
             target == name_to_target[2][n][2]
         IN Put(SchemaFiles(name_to_target, components, n - 1), target,
                WalkRewrite(Get(components, name), target, name_to_target))

\* exporter.export_schemas_split_map(classes, docs_root=docs_root): files,
\* name_to_target, and the new registry and class attributes it leaves
ExportSchemasSplitMap(classes, docs_root, sn, openapi, cf, src) ==
    LET TargetOf(st, name) ==
            LET cls == FirstClassNamed(classes, name, st.schema_name) IN
            SchemaTargetPath(docs_root,
                             IF cls # "" THEN GetAttr(src, cls) ELSE None, name)
        NameToTarget(st, names) ==
            Dict([i \in 1..Len(names) |-> <<names[i], TargetOf(st, names[i])>>])
        Out(st, name_to_target) ==
            [files |-> SchemaFiles(name_to_target, st.components,
                                   Len(name_to_target[2])),
             name_to_target |-> name_to_target,
             st |-> st]
        Split(st) == Out(st, NameToTarget(st, Keys(st.components)))
    IN Split(EnsureAll(classes, Len(classes), FreshRegistry(sn, openapi), cf))

\* exporter.export_paths_split_list(docs_root=, name_to_target=)
ExportPathsSplitList(docs_root, name_to_target, pmap, sn, src) ==
    LET paths == ExportPathsDict(pmap, sn)
        HasClasses(entry) == Len(entry[2]) > 0
        bound == SelectSeq(pmap[2], HasClasses)
    IN [i \in 1..Len(bound) |->
          LET url == bound[i][1]
              target == PathTargetPath(docs_root, GetAttr(src, bound[i][2][1]),
                                       "path_item")
          IN <<url, target, WalkRewrite(Get(paths, url), target, name_to_target)>>]

RECURSIVE WriteAll(_, _)
\* path.write_text(to_yaml(obj)) for the first n <<path, obj>> entries: a
\* later write to the same path replaces the earlier one; a file is held as
\* the tree safe_dump serialises, key order kept (sort_keys=False)
WriteAll(entries, n) ==
    IF n = 0 THEN NoFiles
    ELSE (entries[n][1] :> entries[n][2]) @@ WriteAll(entries, n - 1)

RECURSIVE ComponentsIndex(_, _, _)
\* write_docs_tree: components_index after the first n schema files
ComponentsIndex(targets, n, docs_root) ==
    IF n = 0 THEN EmptyDict
    ELSE Put(ComponentsIndex(targets, n - 1, docs_root), Stem(targets[n]),
             Dict(<< <<"$ref", RelRef(docs_root \o <<"openapi.yaml">>, targets[n])>> >>))

\* exporter.write_docs_tree: the files written, path -> content
WriteDocsTree(docs_root, openapi_info, schemas_files, paths_list) ==
    LET index_path == docs_root \o <<"openapi.yaml">>
        paths_index ==
            Dict([i \in 1..Len(paths_list) |->
                    <<paths_list[i][1],
                      Dict(<< <<"$ref", RelRef(index_path, paths_list[i][2])>> >>)>>])
        index == Dict(<< <<"openapi", Str("3.0.1")>>, <<"info", openapi_info>>,
                         <<"paths", paths_index>>,
                         <<"components",
                           Dict(<< <<"schemas",
                                     ComponentsIndex(Keys(schemas_files),
                                                     Len(schemas_files[2]),
                                                     docs_root)>> >>)>> >>)
        Entries == schemas_files[2]
                     \o [i \in 1..Len(paths_list) |-> <<paths_list[i][2], paths_list[i][3]>>]
                     \o << <<index_path, index>> >>
        Write(entries) == WriteAll(entries, Len(entries))
    IN Write(Entries)

\* the field() calls of the class bodies the pipeline is run on
ClassBody(c) ==
    CASE c = "Product" ->
           << <<"id", [DefaultArgs EXCEPT !.type_ = Str("string"), !.required = Bool(TRUE)]>> >>
      [] c = "Category" ->
           << <<"items", [DefaultArgs EXCEPT !.type_ = Str("array"), !.items = Cls("Product")]>> >>
      [] c = "Base" ->
           << <<"id", [DefaultArgs EXCEPT !.type_ = Str("string")]>> >>
      [] c = "Mixin" ->
           << <<"created", [DefaultArgs EXCEPT !.type_ = Str("string"),
                                                !.format_ = Str("date-time")]>> >>
      [] OTHER ->
           << <<"note", [DefaultArgs EXCEPT !.type_ = Str("integer")]>> >>

RECURSIVE BodyLeaves(_, _, _)
\* class_to_name after the first n field() calls of a class body
BodyLeaves(decls, n, c2n) ==
    IF n = 0 THEN c2n
    ELSE FieldInitLeaves(decls[n][2], BodyLeaves(decls, n - 1, c2n))

\* the class statement of c, its bases declared: the body's field() calls,
\* then __set_name__ for each descriptor
ClassStatement(c) ==
    LET decls == ClassBody(c)
        c2n == regClassToName[curSchema]
    IN
    /\ body = NoBody
    /\ ~clsDeclared[c]
    /\ \A i \in 2..Len(Mro(c)) : clsDeclared[Mro(c)[i]]
    /\ clsFields' = [clsFields EXCEPT ![c] =
                       [i \in 1..Len(decls) |->
                          [name |-> decls[i][1], args |-> decls[i][2],
                           meta |-> FieldDescriptorInit(decls[i][2], c2n,
                                                        clsSchemaName).meta]]]
    /\ clsDeclared' = [clsDeclared EXCEPT ![c] = TRUE]
    /\ regClassToName' =
         [regClassToName EXCEPT ![curSchema] = BodyLeaves(decls, Len(decls), c2n)]
    /\ lastStep' = "classdef"
    /\ UNCHANGED <<body, regComponents, clsSchemaName, clsOpenapi>>

\* the source locations a class is given: for a path class its module under
\* docs/paths; for a schema class a module below docs/schemas, one directly
\* in it, and one outside the docs tree
SourceFor(c) ==
    IF c \in AllPathClasses
    THEN {PathV(DocsRoot \o <<"paths", "shop", "api.py">>)}
    ELSE {PathV(DocsRoot \o <<"schemas", "shop", "models.py">>),
          PathV(DocsRoot \o <<"schemas", "models.py">>),
          PathV(<<"lib", "models.py">>)}

\* cli._force_source(obj, new_source)
ForceSource(c, new_source) ==
    /\ clsSource[c] = None
    /\ clsSource' = [clsSource EXCEPT ![c] = new_source]
    /\ lastStep' = "source"
    /\ UNCHANGED <<pathMap, clsPathAttrs>>

\* exporter.export_split_docs(docs_root=DocsRoot, openapi_info=Info,
\* classes=classes)
ExportSplitDocs(classes) ==
    LET Record(sm, paths, written) ==
            /\ fs' = written @@ fs
            /\ prevRun' = lastRun
            /\ lastRun' = [done |-> TRUE, run |-> lastRun.run + 1,
                           classes |-> classes,
                           paths |-> pathMap[curPath], hints |-> clsSource,
                           files |-> written, targets |-> sm.name_to_target,
                           document |-> [paths |-> paths,
                                         schemas |-> sm.st.components]]
            /\ clsSchemaName' = sm.st.schema_name
            /\ clsOpenapi' = sm.st.openapi
        Run(sm) ==
            Record(sm, ExportPathsDict(pathMap[curPath], sm.st.schema_name),
                   WriteDocsTree(DocsRoot, Info, sm.files,
                                 ExportPathsSplitList(DocsRoot, sm.name_to_target,
                                                      pathMap[curPath],
                                                      sm.st.schema_name, clsSource)))
    IN
    /\ body = NoBody
    /\ \A i \in 1..Len(classes) : clsDeclared[classes[i]]
    /\ Run(ExportSchemasSplitMap(classes, DocsRoot, clsSchemaName, clsOpenapi,
                                 clsFields, clsSource))
    /\ lastStep' = "export"
    /\ UNCHANGED <<regComponents, regClassToName>>

\* the class lists the pipeline is run on
SplitClassLists ==
    {<<"Product", "Category">>, <<"Category">>,
     <<"Base", "Derived", "Mixin">>, <<"Mixin", "Base", "Derived">>}

----------------------------------------------------------------------------
(* Specifications *)

AllIdle ==
    /\ ScopeIdle
    /\ RegIdle
    /\ FieldIdle
    /\ ClassIdle
    /\ OpIdle
    /\ WalkIdle
    /\ PathIdle
    /\ DocIdle
    /\ SplitIdle
    /\ CallIdle
    /\ LiveIdle
    /\ lastStep = "init"

\* nested registry scopes
ScopeFrame ==
    UNCHANGED <<regVars, fieldVars, classVars, opVars, walkVars, pathVars,
                docVars, splitVars, callVars, liveVars>>

ScopeNext ==
    \/ \E reg \in SchemaRegs : UseRegistryEnter(reg) /\ ScopeFrame
    \/ \E reg \in PathRegs : UsePathRegistryEnter(reg) /\ ScopeFrame
    \/ ScopeExitNormal /\ ScopeFrame
    \/ RaiseInScope /\ ScopeFrame
    \/ ScopeExitError /\ ScopeFrame
    \/ CatchError /\ ScopeFrame

SpecScope == AllIdle /\ [][ScopeNext]_vars

\* one field() call, under a registry that knows Product or not
FieldNext ==
    \/ /\ fieldArgs = NoArgs
       /\ \E name \in {None, Str("Prod")} : RegisterSchemaClass("Product", name)
       /\ UNCHANGED <<scopeVars, classVars, fieldVars, opVars, walkVars,
                      pathVars, docVars, splitVars, callVars, liveVars>>
    \/ /\ fieldArgs = NoArgs
       /\ \E a \in FieldArgs : FieldCall(a)
       /\ UNCHANGED <<scopeVars, classVars, opVars, walkVars, pathVars,
                      docVars, splitVars, callVars, liveVars>>

SpecField == AllIdle /\ [][FieldNext]_vars

\* one class statement and its @schema registrations
ObjectFrame ==
    UNCHANGED <<scopeVars, fieldVars, opVars, walkVars, pathVars, docVars,
                splitVars, callVars, liveVars>>

ObjectNext ==
    \/ BeginClass("Category") /\ ObjectFrame
    \/ \E name \in FieldNames, a \in ObjectKit : BodyField(name, a) /\ ObjectFrame
    \/ EndClass /\ ObjectFrame
    \/ \E positional \in {None, Str("Alias")}, name \in {None, Str("Cat")} :
         SchemaCall("Category", positional, name, "") /\ ObjectFrame

SpecObject == AllIdle /\ [][ObjectNext]_vars

\* one method of a path class: its Operation is built, then its examples mapped
ExamplesFrame ==
    UNCHANGED <<scopeVars, regVars, fieldVars, classVars, walkVars, pathVars,
                docVars, splitVars, callVars, liveVars>>

ExamplesNext ==
    \/ \E specs \in SeqsUpTo(RespKit, MaxResponses) :
         CollectOperation(specs) /\ ExamplesFrame
    \/ \E ret \in {None} \cup {List(e) : e \in SeqsUpTo(ExampleKit, MaxExamples)} :
         InvokeAndApply(ret) /\ ExamplesFrame

SpecExamples == AllIdle /\ [][ExamplesNext]_vars

\* one run of the reference-rewrite walk
WalkFrame ==
    UNCHANGED <<scopeVars, regVars, fieldVars, classVars, opVars, pathVars,
                docVars, splitVars, callVars, liveVars>>

WalkNext ==
    \E obj \in Trees(MaxTreeDepth), f \in WalkFiles, t \in WalkTargets :
        WalkCall(obj, f, t) /\ WalkFrame

SpecWalk == AllIdle /\ [][WalkNext]_vars

\* declarations in any order, then one document
DeclFrame == UNCHANGED <<scopeVars, fieldVars, opVars, walkVars, splitVars, callVars, liveVars>>

DeclNext ==
    \/ \E c \in {"Product", "Category"} :
         BeginClass(c) /\ UNCHANGED <<pathVars, docVars>> /\ DeclFrame
    \/ /\ body # NoBody
       /\ \E name \in DeclNames(body.cls), a \in DeclKit(body.cls) : BodyField(name, a)
       /\ UNCHANGED <<pathVars, docVars>> /\ DeclFrame
    \/ EndClass /\ UNCHANGED <<pathVars, docVars>> /\ DeclFrame
    \/ /\ \E c \in {"Product", "Category"}, positional \in {None, Str("Alias")},
             name \in {None, Str("Prod")} :
               clsSchemaName[c] = None /\ SchemaCall(c, positional, name, "")
       /\ UNCHANGED <<pathVars, docVars>> /\ DeclFrame
    \/ PathDecl("ProductsPath") /\ UNCHANGED <<regVars, classVars, docVars>> /\ DeclFrame
    \/ /\ \E classes \in {<<>>, <<"Product", "Category">>, <<"Category", "Product">>},
             registry \in {"", RootSchema} : BuildOpenapiDocument(classes, registry)
       /\ UNCHANGED <<classVars, pathVars>> /\ DeclFrame

SpecDecl == AllIdle /\ [][DeclNext]_vars

\* what @path and @get are given, and how the calls of the class end
PathAttrKit ==
    {[path_params |-> pp, op_params |-> mp, op_request |-> rb, raises |-> r,
      fns |-> <<GetFn>>] :
       pp \in {<<>>, <<PathParam("id", "integer")>>,
               <<PathParam("id", "integer"), PathParam("shop", "string")>>},
       mp \in {<<>>,
               <<QueryParam("limit", "integer", Str("int32"), Str("page size"), IntV(10))>>,
               <<PathParam("id", "string"),
                 QueryParam("limit", "integer", None, Str(""), None)>>},
       rb \in {None, RequestBodySpec(JsonMedia(Cls("Product")), Bool(TRUE),
                                     Str("new product"))},
       r \in {"", "init", "method"}}

\* path classes declared, and one document assembled
PathsNext ==
    \/ /\ \E pc \in PathClasses, attrs \in PathAttrKit : PathDeclWith(pc, attrs)
       /\ UNCHANGED <<regVars, classVars, docVars>> /\ DeclFrame
    \/ /\ BuildOpenapiDocument(<<>>, "")
       /\ UNCHANGED <<classVars, pathVars>> /\ DeclFrame

SpecPaths == AllIdle /\ [][PathsNext]_vars

\* what the classes bound to the URLs declare: path parameters, and functions
\* in attribute-name order whose names may differ from their HTTP method
BindKit ==
    {[NoPathAttrs EXCEPT !.path_params = pp, !.fns = fns] :
       pp \in {<<>>, <<PathParam("id", "integer")>>, <<PathParam("shop", "string")>>},
       fns \in {<<GetFn>>,
                <<Fn("fetch", "get", FALSE)>>,
                <<Fn("fetch", "get", FALSE), Fn("get", "", TRUE)>>,
                <<Fn("a_list", "get", TRUE), GetFn>>,
                <<GetFn, Fn("list_all", "get", TRUE)>>}}

\* classes bound to URLs, two of them to the same one, then one assembly
BindNext ==
    \/ /\ ~assembled.built
       /\ \E pc \in AllPathClasses, attrs \in BindKit : PathDeclWith(pc, attrs)
       /\ UNCHANGED <<regVars, classVars, docVars>> /\ DeclFrame
    \/ /\ BuildOpenapiDocument(<<>>, "")
       /\ UNCHANGED <<classVars, pathVars>> /\ DeclFrame

SpecBind == AllIdle /\ [][BindNext]_vars

\* one call reg.register_class_name(cls, name) on the current registry
RegisterClassNameCall(c, name) ==
    /\ clsDeclared[c]
    /\ regClassToName' =
         [regClassToName EXCEPT ![curSchema][c] = RegisterClassNameComp(c, name)]
    /\ lastCall' = [fn |-> "register_class_name", args |-> <<Cls(c), name>>]
    /\ lastResult' = Ok(RegisterClassNameComp(c, name))
    /\ lastStep' = "register"
    /\ UNCHANGED <<regComponents, clsSchemaName, clsOpenapi>>

\* one call reg.resolve_name(obj) on the current registry
ResolveNameCall(obj) ==
    /\ IsCls(obj) => clsDeclared[obj[2]]
    /\ lastCall' = [fn |-> "resolve_name", args |-> <<obj>>]
    /\ lastResult' = ResolveName(obj, regClassToName[curSchema], clsSchemaName)
    /\ regClassToName' =
         [regClassToName EXCEPT ![curSchema] = ResolveNameLeaves(obj, @)]
    /\ lastStep' = "resolve"
    /\ UNCHANGED <<regComponents, clsSchemaName, clsOpenapi>>

\* SchemaRegistry.put_component on the dict object o: the heap afterwards
PutComponent(o, hp, name, schema_dict) ==
    [hp EXCEPT ![o] = Put(hp[o], name, schema_dict)]

\* a clear that bound self.components to a new empty dict
ClearComponentsRebinding(o, hp) ==
    [obj |-> Len(hp) + 1, heap |-> Append(hp, EmptyDict)]

\* SchemaRegistry.clear, its components part: the object self.components is
\* bound to afterwards, and the heap afterwards
ClearComponents(o, hp) ==
    [obj |-> o, heap |-> [hp EXCEPT ![o] = EmptyDict]]

\* one call reg.put_component(name, schema_dict) on registry r
PutComponentCall(r, name, schema_dict) ==
    LET hp == PutComponent(compObj[r], heap, name, schema_dict) IN
    /\ heap' = hp
    /\ regComponents' = [regComponents EXCEPT ![r] = hp[compObj[r]]]
    /\ lastCall' = [fn |-> "put_component", args |-> <<Str(r), Str(name)>>]
    /\ lastResult' = None
    /\ lastStep' = "put"
    /\ UNCHANGED <<compObj, held, regClassToName, clsSchemaName, clsOpenapi>>

\* one call reg.clear() on registry r
ClearCall(r) ==
    LET cl == ClearComponents(compObj[r], heap) IN
    /\ compObj' = [compObj EXCEPT ![r] = cl.obj]
    /\ heap' = cl.heap
    /\ regComponents' = [regComponents EXCEPT ![r] = cl.heap[cl.obj]]
    /\ regClassToName' = [regClassToName EXCEPT ![r] = [c \in Classes |-> None]]
    /\ lastCall' = [fn |-> "clear", args |-> <<Str(r)>>]
    /\ lastResult' = None
    /\ lastStep' = "clear"
    /\ UNCHANGED <<held, clsSchemaName, clsOpenapi>>

\* one call reg.get_components() on registry r, whose result the caller keeps
GetComponentsCall(r) ==
    /\ held' = [held EXCEPT ![r] = compObj[r]]
    /\ lastCall' = [fn |-> "get_components", args |-> <<Str(r)>>]
    /\ lastResult' = <<"obj", compObj[r]>>
    /\ lastStep' = "get"
    /\ UNCHANGED <<regVars, compObj, heap>>

\* the schemas put directly
PutSchemas ==
    {Dict(<< <<"type", Str("object")>> >>), Dict(<< <<"type", Str("string")>> >>)}

\* one call schema(name=name)(cls) under the current registry
SchemaDecorateCall(c, name) ==
    /\ SchemaCall(c, None, name, "")
    /\ lastCall' = [fn |-> "schema", args |-> <<Cls(c), name>>]
    /\ lastResult' = None

\* an element of a class list that is not a class: an int
NotAClass == "int"

RECURSIVE Registrable(_)
\* the classes _ensure_registered is run on: those before the first element
\* that is not a class, where cls.__name__ raises AttributeError
Registrable(classes) ==
    IF classes = <<>> \/ Head(classes) = NotAClass THEN <<>>
    ELSE <<Head(classes)>> \o Registrable(Tail(classes))

\* with use_registry(reg) entered and left again, by return or by error: the
\* current registry afterwards, cur being current before
WithUseRegistryDefault(cur, reg) ==
    ContextVarResetToDefault(ContextVarSet("schema", cur, reg))

WithUseRegistry(cur, reg) ==
    ContextVarReset(ContextVarSet("schema", cur, reg))

\* one call build_components_schemas(classes) without a registry: the classes
\* are registered into a new SchemaRegistry, made current for the time of the
\* call, whose components are returned
BuildComponentsSchemasCall(classes) ==
    LET done == Registrable(classes)
        st == EnsureAll(done, Len(done),
                        FreshRegistry(clsSchemaName, clsOpenapi), clsFields)
    IN
    /\ body = NoBody
    /\ \A i \in 1..Len(done) : clsDeclared[done[i]]
    /\ curSchema' = WithUseRegistry(curSchema, "new")
    /\ clsSchemaName' = st.schema_name
    /\ clsOpenapi' = st.openapi
    /\ lastCall' = [fn |-> "build_components_schemas", args |-> classes]
    /\ lastResult' = IF Len(done) < Len(classes) THEN Raise("AttributeError")
                     ELSE st.components
    /\ lastStep' = "build"
    /\ UNCHANGED <<regComponents, regClassToName, classVars>>

\* one call export_schemas_split_map(classes, docs_root=DocsRoot): as above,
\* and the files and targets of the components are returned
ExportSchemasSplitMapCall(classes) ==
    LET done == Registrable(classes)
        sm == ExportSchemasSplitMap(done, DocsRoot, clsSchemaName, clsOpenapi,
                                    clsFields, clsSource)
    IN
    /\ body = NoBody
    /\ \A i \in 1..Len(done) : clsDeclared[done[i]]
    /\ curSchema' = WithUseRegistry(curSchema, "new")
    /\ clsSchemaName' = sm.st.schema_name
    /\ clsOpenapi' = sm.st.openapi
    /\ lastCall' = [fn |-> "export_schemas_split_map", args |-> classes]
    /\ lastResult' = IF Len(done) < Len(classes) THEN Raise("AttributeError")
                     ELSE sm.name_to_target
    /\ lastStep' = "split_map"
    /\ UNCHANGED <<regComponents, regClassToName, classVars>>

\* one call export_paths_dict(): the current path registry is read
ExportPathsDictCall ==
    /\ lastCall' = [fn |-> "export_paths_dict", args |-> <<>>]
    /\ lastResult' = ExportPathsDict(pathMap[curPath], clsSchemaName)
    /\ lastStep' = "paths_dict"
    /\ UNCHANGED <<scopeVars, regVars, classVars, pathVars>>

\* classes declared and decorated, and the registry called directly
RegistryFrame ==
    UNCHANGED <<scopeVars, fieldVars, opVars, walkVars, pathVars, docVars,
                splitVars>>

\* registries used through put_component, register_class_name, clear and
\* get_components
LiveNext ==
    \/ ClassStatement("Product") /\ UNCHANGED <<callVars, liveVars>> /\ RegistryFrame
    \/ \E name \in {None, Str("Prod")} :
         /\ RegisterClassNameCall("Product", name)
         /\ UNCHANGED <<classVars, liveVars>> /\ RegistryFrame
    \/ \E r \in {"rootS", "sA"}, name \in {"Product", "Category"},
          schema_dict \in PutSchemas :
         PutComponentCall(r, name, schema_dict) /\ UNCHANGED classVars /\ RegistryFrame
    \/ \E r \in {"rootS", "sA"} :
         ClearCall(r) /\ UNCHANGED classVars /\ RegistryFrame
    \/ \E r \in {"rootS", "sA"} :
         GetComponentsCall(r) /\ UNCHANGED classVars /\ RegistryFrame

SpecLive == AllIdle /\ [][LiveNext]_vars

MaxHintDepth == 3

\* the names a source-location hint is made of
HintNames == {"docs", "schemas", "paths", "m.py"}

\* the source-location hints the target functions are called with: none, and
\* every path of at most MaxHintDepth names
TargetHints ==
    {None} \cup {PathV(d) : d \in SeqsUpTo(HintNames, MaxHintDepth)}

\* one call schema_target_path(docs_root, schema_source, file_id)
SchemaTargetPathCall(schema_source, file_id) ==
    /\ lastCall' = [fn |-> "schema_target_path",
                    args |-> <<DocsRoot, schema_source, file_id>>]
    /\ lastResult' = SchemaTargetPath(DocsRoot, schema_source, file_id)
    /\ lastStep' = "target"

\* one call path_target_path(docs_root, path_source, file_id)
PathTargetPathCall(path_source, file_id) ==
    /\ lastCall' = [fn |-> "path_target_path",
                    args |-> <<DocsRoot, path_source, file_id>>]
    /\ lastResult' = PathTargetPath(DocsRoot, path_source, file_id)
    /\ lastStep' = "target"

\* the target functions called on every hint and file id
TargetNext ==
    \/ \E hint \in TargetHints, file_id \in FileIds :
         /\ SchemaTargetPathCall(hint, file_id)
         /\ UNCHANGED <<scopeVars, regVars, fieldVars, classVars, opVars, walkVars,
                        pathVars, docVars, splitVars, liveVars>>
    \/ \E hint \in TargetHints, file_id \in FileIds :
         /\ PathTargetPathCall(hint, file_id)
         /\ UNCHANGED <<scopeVars, regVars, fieldVars, classVars, opVars, walkVars,
                        pathVars, docVars, splitVars, liveVars>>

SpecTarget == AllIdle /\ [][TargetNext]_vars

\* the frame of the steps of SpecAmbient that leave the scopes alone
AmbientFrame ==
    UNCHANGED <<fieldVars, opVars, walkVars, docVars, splitVars, liveVars>>

\* the class lists the build functions are called on
BuildLists ==
    {<<"Product">>, <<"Product", "Category">>, <<"Product", NotAClass>>,
     <<NotAClass>>}

\* registries made current, classes declared and decorated and path classes
\* bound in them, and the build and export functions called
AmbientNext ==
    \/ UseRegistryEnter("sA")
         /\ UNCHANGED <<regVars, classVars, pathVars, callVars>> /\ AmbientFrame
    \/ UsePathRegistryEnter("pA")
         /\ UNCHANGED <<regVars, classVars, pathVars, callVars>> /\ AmbientFrame
    \/ ScopeExitNormal
         /\ UNCHANGED <<regVars, classVars, pathVars, callVars>> /\ AmbientFrame
    \/ \E c \in {"Product", "Category"} :
         ClassStatement(c) /\ UNCHANGED <<callVars, liveVars>> /\ RegistryFrame
    \/ SchemaDecorateCall("Product", Str("Item"))
         /\ UNCHANGED liveVars /\ RegistryFrame
    \/ PathDecl("ProductsPath")
         /\ UNCHANGED <<scopeVars, regVars, classVars, callVars>> /\ AmbientFrame
    \/ \E classes \in BuildLists :
         /\ BuildComponentsSchemasCall(classes)
         /\ UNCHANGED <<curPath, scopes, raising, pathVars>> /\ AmbientFrame
    \/ \E classes \in BuildLists :
         /\ ExportSchemasSplitMapCall(classes)
         /\ UNCHANGED <<curPath, scopes, raising, pathVars>> /\ AmbientFrame
    \/ ExportPathsDictCall /\ AmbientFrame

SpecAmbient == AllIdle /\ [][AmbientNext]_vars

\* two classes decorated, also under one component name, and built
NamesNext ==
    \/ \E c \in {"Product", "Category"} :
         ClassStatement(c) /\ UNCHANGED <<callVars, liveVars>> /\ RegistryFrame
    \/ \E c \in {"Product", "Category"}, name \in {None, Str("Item")} :
         SchemaDecorateCall(c, name) /\ UNCHANGED liveVars /\ RegistryFrame
    \/ \E classes \in {<<"Product", "Category">>, <<"Category", "Product">>} :
         BuildComponentsSchemasCall(classes) /\ UNCHANGED liveVars /\ RegistryFrame

SpecNames == AllIdle /\ [][NamesNext]_vars

RegistryNext ==
    \/ \E c \in {"Base", "Mixin", "Derived"} :
         ClassStatement(c) /\ UNCHANGED <<callVars, liveVars>> /\ RegistryFrame
    \/ \E c \in {"Base", "Mixin"}, name \in {None, Str("Alias")} :
         /\ clsSchemaName[c] = None
         /\ SchemaCall(c, None, name, "") /\ UNCHANGED <<callVars, liveVars>> /\ RegistryFrame
    \/ \E c \in {"Base", "Derived"}, name \in {None, Str("Alias"), Str("Other")} :
         /\ RegisterClassNameCall(c, name)
         /\ UNCHANGED <<classVars, liveVars>> /\ RegistryFrame
    \/ \E obj \in {Str("User"), Cls("Base"), Cls("Derived"), IntV(1), None} :
         /\ ResolveNameCall(obj)
         /\ UNCHANGED <<classVars, liveVars>> /\ RegistryFrame

SpecRegistry == AllIdle /\ [][RegistryNext]_vars

\* one call of rel_ref
LinkNext ==
    \E from_file \in LinkFiles, to_file \in LinkFiles :
        /\ RelRefCall(from_file, to_file)
        /\ UNCHANGED <<scopeVars, regVars, fieldVars, classVars, opVars, walkVars,
                       pathVars, docVars, splitVars, liveVars>>

SpecLink == AllIdle /\ [][LinkNext]_vars

\* classes and paths declared, sources forced, and the pipeline run on them
SplitFrame ==
    UNCHANGED <<scopeVars, fieldVars, opVars, walkVars, docVars, callVars, liveVars>>

\* the order the class statements of the imported modules run in
ImportOrder == <<"Product", "Category", "Base", "Mixin", "Derived">>

\* c is the next class statement to run
IsNextImport(c) ==
    \E i \in 1..Len(ImportOrder) :
        /\ ImportOrder[i] = c
        /\ \A j \in 1..(i - 1) : clsDeclared[ImportOrder[j]]

\* as the command line does: the modules are imported and the sources forced,
\* then the pipeline runs, at most MaxRuns times
SplitNext ==
    \/ \E c \in Classes :
         /\ ~lastRun.done /\ IsNextImport(c)
         /\ ClassStatement(c) /\ UNCHANGED <<pathVars, splitVars>> /\ SplitFrame
    \/ \E pc \in PathClasses :
         /\ ~lastRun.done
         /\ PathDecl(pc) /\ UNCHANGED <<regVars, classVars, splitVars>> /\ SplitFrame
    \/ \E url \in PathUrls :
         /\ ~lastRun.done
         /\ EnsureUrl(url) /\ UNCHANGED <<regVars, classVars, splitVars>> /\ SplitFrame
    \/ \E c \in {"Product", "Category"} \cup PathClasses :
         /\ ~lastRun.done
         /\ \E new_source \in SourceFor(c) : ForceSource(c, new_source)
         /\ UNCHANGED <<regVars, classVars, splitVars>> /\ SplitFrame
    \/ \E classes \in SplitClassLists :
         /\ lastRun.run < MaxRuns
         /\ ExportSplitDocs(classes) /\ UNCHANGED <<classVars, pathVars>> /\ SplitFrame

SpecSplit == AllIdle /\ [][SplitNext]_vars

----------------------------------------------------------------------------
(* C1 *)

RECURSIVE InnermostOpen(_, _, _)
\* the registry installed by the innermost frame of `kind` among the first n
\* frames, or `root` when there is none
InnermostOpen(kind, n, root) ==
    IF n = 0 THEN root
    ELSE IF scopes[n].kind = kind THEN scopes[n].reg
    ELSE InnermostOpen(kind, n - 1, root)

\* C1: after any properly nested sequence of scope entries and exits, normal
\* or by error, each current registry is the one installed by the innermost
\* still-open scope of its kind, or the root registry when none is open.
C1_StackDiscipline ==
    /\ curSchema = InnermostOpen("schema", Len(scopes), RootSchema)
    /\ curPath = InnermostOpen("path", Len(scopes), RootPath)

\* an error has just left a scope nested in a schema scope that installed
\* a non-root registry, which is current again
C1_Witness ==
    /\ lastStep = "exit_error"
    /\ Len(scopes) >= 1
    /\ scopes[Len(scopes)].kind = "schema"
    /\ scopes[Len(scopes)].reg # RootSchema
    /\ curSchema = scopes[Len(scopes)].reg

----------------------------------------------------------------------------
(* C2 *)

\* a schema node of object type or carrying properties
IsObjectNode(v) ==
    /\ IsDict(v)
    /\ \/ GetOrNone(v, "type") = Str("object")
       \/ IsList(GetOrNone(v, "type")) /\ InSeq(Str("object"), GetOrNone(v, "type")[2])
       \/ Has(v, "properties")

RECURSIVE HasInlineObject(_)
\* the node, or an items node below it at any depth, is an inline object
HasInlineObject(v) ==
    /\ IsDict(v)
    /\ \/ IsObjectNode(v)
       \/ Has(v, "items") /\ HasInlineObject(Get(v, "items"))

\* the property schemas of a registered object schema
PropertiesOf(sch) == Get(sch, "properties")[2]

\* C2: no registered schema holds an inline object below its top level: no
\* property and no items node at any depth has object type or properties.
C2_NoInlineObject ==
    \A r \in SchemaRegs : \A i \in 1..Len(regComponents[r][2]) :
        LET props == PropertiesOf(regComponents[r][2][i][2]) IN
        \A j \in 1..Len(props) : ~HasInlineObject(props[j][2])

----------------------------------------------------------------------------
(* C3 *)

\* C3: a field declared with ref=X, X a string or a class, with any other
\* keywords, emits exactly {"$ref": "#/components/schemas/<resolve_name(X)>"}.
C3_RefOnly ==
    (fieldResult.ok /\ (IsStr(fieldArgs.ref) \/ IsCls(fieldArgs.ref))) =>
        ToOpenapiProperty(fieldResult.meta) =
            Dict(<< <<"$ref",
                      ComponentRef(ResolveName(fieldArgs.ref,
                                               regClassToName[curSchema],
                                               clsSchemaName).val)>> >>)

----------------------------------------------------------------------------
(* C4 *)

\* the names of the fields declared required, in declaration order
DeclaredRequired(fields) ==
    LET IsReq(f) == f.args.required = Bool(TRUE)
        req == SelectSeq(fields, IsReq)
    IN [k \in 1..Len(req) |-> Str(req[k].name)]

\* C4: a built object schema lists the type's fields as property keys in
\* declaration order, `required` holds exactly the fields marked required in
\* declaration order, and the key is absent when no field is required.
C4_ObjectSchema ==
    \A r \in SchemaRegs : \A i \in 1..Len(regComponents[r][2]) :
        LET sch == regComponents[r][2][i][2]
            fields == clsFields["Category"]
        IN
        /\ Keys(Get(sch, "properties")) = [k \in 1..Len(fields) |-> fields[k].name]
        /\ IF DeclaredRequired(fields) = <<>>
           THEN ~Has(sch, "required")
           ELSE /\ Has(sch, "required")
                /\ Get(sch, "required") = List(DeclaredRequired(fields))

\* a schema was registered for a class whose second field alone is required
\* and whose fields are not in alphabetical order
C4_Witness ==
    LET fields == clsFields["Category"] IN
    /\ lastStep = "schema"
    /\ Len(fields) = 2
    /\ fields[1].name = "owner" /\ fields[1].args.required = Bool(FALSE)
    /\ fields[2].name = "id" /\ fields[2].args.required = Bool(TRUE)
    /\ Has(regComponents[curSchema], "Category")
    /\ Get(Get(regComponents[curSchema], "Category"), "required") = List(<<Str("id")>>)

----------------------------------------------------------------------------
(* C5 *)

\* the response stored under specs[i]'s status is the one built from specs[i]
IsLastWithStatus(specs, i) ==
    \A j \in (i + 1)..Len(specs) : specs[j].status # specs[i].status

\* C5: for declared response specs R and a returned list E, the response built
\* from R[i] carries E[i] applied when i <= |E|, and is as built otherwise:
\* elements map on responses by declaration position, extra ones change nothing.
C5_ExamplesByDeclaration ==
    (opPhase = "applied" /\ IsList(opRet)) =>
        \A i \in 1..Len(opSpecs) :
            IsLastWithStatus(opSpecs, i) =>
                Get(opResponses, ToString(opSpecs[i].status)) =
                    IF i <= Len(opRet[2])
                    THEN ApplyExample(ResponseToModel(opSpecs[i], clsSchemaName),
                                      opRet[2][i])
                    ELSE ResponseToModel(opSpecs[i], clsSchemaName)

----------------------------------------------------------------------------
(* C6 *)

\* a "$ref" value of the exact form #/components/schemas/<Name>, Name known
IsExactKnownRef(v, name_to_target) ==
    /\ IsStr(v)
    /\ Len(v[2]) = 4
    /\ StartsWithComponents(v)
    /\ Has(name_to_target, v[2][4])

RECURSIVE OnlyExactRefsChanged(_, _, _, _)
\* `after` is `before` with nothing changed but "$ref" values of the exact
\* form, each replaced by the relative link from `this` to its target
OnlyExactRefsChanged(before, after, this, name_to_target) ==
    IF IsDict(before) THEN
        /\ IsDict(after)
        /\ Keys(after) = Keys(before)
        /\ \A i \in 1..Len(before[2]) :
             LET k == before[2][i][1]
                 v == before[2][i][2]
                 w == after[2][i][2]
             IN
             IF k = "$ref" /\ IsExactKnownRef(v, name_to_target)
             THEN w = RelRef(this, Get(name_to_target, v[2][4]))
             ELSE \/ w = v
                  \/ OnlyExactRefsChanged(v, w, this, name_to_target)
    ELSE IF IsList(before) THEN
        /\ IsList(after)
        /\ Len(after[2]) = Len(before[2])
        /\ \A i \in 1..Len(before[2]) :
             OnlyExactRefsChanged(before[2][i], after[2][i], this, name_to_target)
    ELSE after = before

\* C6: the walk changes a tree only at "$ref" values that are exactly
\* #/components/schemas/<Name> with <Name> known, replacing each by the
\* relative link; every other "$ref" value, key, key order and value is as given.
C6_RewriteOnlyExactRefs ==
    walkArgs # NoWalk =>
        OnlyExactRefsChanged(walkArgs.obj, walkOut, walkArgs.this_yaml_path,
                             walkArgs.name_to_target)

----------------------------------------------------------------------------
(* C9 *)

\* C9: a rejected declaration, a field() call that raises or a schema() call
\* given both a positional name and name=, leaves every registry unchanged:
\* neither components nor class_to_name gains or changes an entry.
C9_RejectedLeavesRegistries ==
    [][lastStep' \in {"rejected", "refused"} =>
         UNCHANGED <<regComponents, regClassToName>>]_vars

\* a field() call of Category's body was rejected under a registry that
\* already held Product's entries
C9_Witness ==
    /\ lastStep = "rejected"
    /\ ~clsDeclared["Category"]
    /\ regClassToName[curSchema]["Product"] = Str("Prod")
    /\ Has(regComponents[curSchema], "Prod")

----------------------------------------------------------------------------
(* C10 *)

\* the reference a document makes to the type T under class_to_name c2n
TypeRef(T, c2n) == Dict(<< <<"$ref", ComponentRef(c2n[T[2]])>> >>)

\* T is a type registered under c2n
IsRegisteredType(T, c2n) == IsCls(T) /\ c2n[T[2]] # None

\* C10: in an assembled document every reference made through a type T, by
\* field ref=T, by array items=T or by a media schema T, points at the name T
\* is registered under at assembly time, in whatever order they were declared.
C10_TypeRefsResolve ==
    assembled.built =>
        LET schemas == Get(Get(assembled.doc, "components"), "schemas")
            paths == Get(assembled.doc, "paths")
            c2n == assembled.class_to_name
        IN
        /\ \A i \in 1..Len(assembled.classes) :
             LET c == assembled.classes[i]
                 fields == SchemaFields(c, clsFields)
             IN
             (c2n[c] # None /\ Has(schemas, NameKey(c2n[c]))) =>
                 LET props == Get(Get(schemas, NameKey(c2n[c])), "properties") IN
                 \A k \in 1..Len(fields) :
                     Has(props, fields[k].name) =>
                         LET a == fields[k].args
                             prop == Get(props, fields[k].name)
                         IN
                         /\ IsRegisteredType(a.ref, c2n) => prop = TypeRef(a.ref, c2n)
                         /\ (IsRegisteredType(a.items, c2n) /\ Has(prop, "items")) =>
                                Get(prop, "items") = TypeRef(a.items, c2n)
        /\ (Has(paths, "/products") /\ c2n["Product"] # None) =>
               Get(Get(Get(Get(Get(Get(paths, "/products"), "get"), "responses"),
                               "200"), "content"), JsonType)
                 = Dict(<< <<"schema", TypeRef(Cls("Product"), c2n)>>,
                           <<"example", Dict(<< <<"id", Str("p1")>> >>)>> >>)

----------------------------------------------------------------------------
(* C7 *)

\* the index file of a written tree
IndexPath == DocsRoot \o <<"openapi.yaml">>

RECURSIVE ResolveFrom(_, _, _)
\* the path reached from directory dir by the first n segments of a link
ResolveFrom(dir, segs, n) ==
    IF n = 0 THEN dir
    ELSE LET at == ResolveFrom(dir, segs, n - 1) IN
         IF segs[n] = "." THEN at
         ELSE IF segs[n] = ".." THEN Parent(at)
         ELSE Append(at, segs[n])

\* the file a relative link written in from_file names
ResolveLink(from_file, link) == ResolveFrom(Parent(from_file), link[2], Len(link[2]))

\* ref is a relative link
IsRelativeLink(ref) == IsStr(ref) /\ Len(ref[2]) > 0 /\ ref[2][1] \in {".", ".."}

\* the component names of the index whose link names file p
NamesAt(index_schemas, p) ==
    {i \in 1..Len(index_schemas[2]) :
        ResolveLink(IndexPath, Get(index_schemas[2][i][2], "$ref")) = p}

RECURSIVE SubstituteBack(_, _, _)
\* obj as read from this_file, every relative link to a component's file
\* replaced by the absolute reference to that component
SubstituteBack(obj, this_file, index_schemas) ==
    IF IsDict(obj) THEN
        IF /\ Has(obj, "$ref")
           /\ IsRelativeLink(Get(obj, "$ref"))
           /\ NamesAt(index_schemas, ResolveLink(this_file, Get(obj, "$ref"))) # {}
        THEN LET hits == NamesAt(index_schemas,
                                 ResolveLink(this_file, Get(obj, "$ref")))
                 i == CHOOSE h \in hits : \A j \in hits : h <= j
             IN Put(obj, "$ref", ComponentRef(Str(index_schemas[2][i][1])))
        ELSE Dict([i \in 1..Len(obj[2]) |->
                     <<obj[2][i][1],
                       SubstituteBack(obj[2][i][2], this_file, index_schemas)>>])
    ELSE IF IsList(obj) THEN
        List([i \in 1..Len(obj[2]) |->
                SubstituteBack(obj[2][i], this_file, index_schemas)])
    ELSE obj

\* the entries of one section of the index, each replaced by the file its
\* link names, read and substituted back
ReadSection(files, section, index_schemas) ==
    Dict([i \in 1..Len(section[2]) |->
            LET target == ResolveLink(IndexPath, Get(section[2][i][2], "$ref"))
            IN <<section[2][i][1],
                 SubstituteBack(files[target], target, index_schemas)>>])

\* the document read back from a written tree
ReadBack(files) ==
    LET index == files[IndexPath]
        index_schemas == Get(Get(index, "components"), "schemas")
    IN [paths |-> ReadSection(files, Get(index, "paths"), index_schemas),
        schemas |-> ReadSection(files, index_schemas, index_schemas)]

\* C7: reading back the files a run of the split pipeline wrote (index, schema
\* files, path files) and substituting every relative link back gives the
\* document the run assembled: the same URLs with the same path items and the
\* same component names with the same schemas.
C7_RoundTrip == lastRun.done => ReadBack(lastRun.files) = lastRun.document

----------------------------------------------------------------------------
(* C8 *)

\* C8: a second run of export_split_docs on the same types, the same
\* registries and the same location hints writes the same files with the
\* same content as the first.
C8_Idempotent ==
    ( /\ lastRun.done /\ prevRun.done
      /\ lastRun.classes = prevRun.classes
      /\ lastRun.paths = prevRun.paths
      /\ lastRun.hints = prevRun.hints )
    => lastRun.files = prevRun.files

----------------------------------------------------------------------------
(* C11 *)

\* the elements of a sequence
Range(seq) == {seq[i] : i \in 1..Len(seq)}

\* v is {"$ref": link}, link leading from the index to a written file under dir
IsLinkTo(v, files, dir) ==
    /\ IsDict(v)
    /\ Keys(v) = <<"$ref">>
    /\ IsRelativeLink(Get(v, "$ref"))
    /\ ResolveLink(IndexPath, Get(v, "$ref")) \in DOMAIN files
    /\ SubSeq(ResolveLink(IndexPath, Get(v, "$ref")), 1, Len(dir)) = dir

\* the keys of an index section are those of the document's section, and
\* every value is a link to a written file under dir
SectionIndexes(section, original, files, dir) ==
    /\ Range(Keys(section)) = Range(Keys(original))
    /\ \A i \in 1..Len(section[2]) : IsLinkTo(section[2][i][2], files, dir)

\* C11: in the index a run of the split pipeline wrote, the keys of paths are
\* exactly the URLs of the assembled document, the keys of components.schemas
\* are exactly its component names, and every value is a single-key
\* {"$ref": link} whose link leads from the index to a file the run wrote.
C11_IndexKeys ==
    lastRun.done =>
        /\ SectionIndexes(Get(lastRun.files[IndexPath], "paths"),
                          lastRun.document.paths, lastRun.files,
                          DocsRoot \o <<"paths">>)
        /\ SectionIndexes(Get(Get(lastRun.files[IndexPath], "components"), "schemas"),
                          lastRun.document.schemas, lastRun.files,
                          DocsRoot \o <<"schemas">>)

----------------------------------------------------------------------------
(* C12 *)

\* the schemas root of the docs tree
SchemasRoot == DocsRoot \o <<"schemas">>

\* the hint names a file below the directory root
LiesUnder(hint, root) ==
    /\ hint # None
    /\ Len(hint[2]) > Len(root)
    /\ SubSeq(hint[2], 1, Len(root)) = root

\* the hint of the type component name of the last run originates from
HintOf(name) ==
    LET cls == FirstClassNamed(lastRun.classes, name, clsSchemaName) IN
    IF cls = "" THEN None ELSE GetAttr(lastRun.hints, cls)

----------------------------------------------------------------------------
(* C13 *)

\* C13: whatever the names of the directories and files, the link rel_ref
\* returns begins with "./" unless it begins with "../" (a link is held by
\* its "/"-separated segments, so forward slashes separate all of it).
C13_LinkPrefix ==
    lastCall.fn = "rel_ref" =>
        /\ Len(lastResult[2]) >= 2
        /\ lastResult[2][1] \in {".", ".."}

----------------------------------------------------------------------------
(* C14 *)

\* the assembled document holds the path item of pc's URL
IsAssembled(pc) ==
    /\ assembled.built
    /\ Has(Get(assembled.doc, "paths"), PathUrl(pc))

\* the operation the assembled document holds for the method of pc
EmittedOp(pc) == Get(Get(Get(assembled.doc, "paths"), PathUrl(pc)), "get")

\* the parameters pc declares: those of @path, then those of @get
DeclaredParams(pc) == clsPathAttrs[pc].path_params \o clsPathAttrs[pc].op_params

\* some media of some response of op carries an example
HasExample(op) ==
    \E i \in 1..Len(Get(op, "responses")[2]) :
        LET response == Get(op, "responses")[2][i][2] IN
        /\ Has(response, "content")
        /\ \E j \in 1..Len(Get(response, "content")[2]) :
              Has(Get(response, "content")[2][j][2], "example")

----------------------------------------------------------------------------
(* C17 *)

\* C17: the parameter list an operation is emitted with is the owning class's
\* path parameters in declared order, then the operation's own in declared
\* order, none dropped or reordered; an operation without parameters is
\* emitted without the key.
C17_ParameterMerge ==
    \A pc \in PathClasses :
        IsAssembled(pc) =>
            IF Len(DeclaredParams(pc)) = 0
            THEN ~Has(EmittedOp(pc), "parameters")
            ELSE Get(EmittedOp(pc), "parameters") =
                   List([i \in 1..Len(DeclaredParams(pc)) |->
                           ParameterToDict(ParamToModel(DeclaredParams(pc)[i]))])

\* an assembled operation whose own parameter repeats the name and location
\* of a path parameter
C17_Witness ==
    \E pc \in PathClasses :
        /\ IsAssembled(pc)
        /\ \E i \in 1..Len(clsPathAttrs[pc].path_params),
              j \in 1..Len(clsPathAttrs[pc].op_params) :
              /\ clsPathAttrs[pc].path_params[i].name = clsPathAttrs[pc].op_params[j].name
              /\ clsPathAttrs[pc].path_params[i].in_ = clsPathAttrs[pc].op_params[j].in_

----------------------------------------------------------------------------
(* C15 *)

\* the response the operation emits under the status of specs[i]
EmittedResponse(i) == ResponseToDict(Get(opResponses, ToString(opSpecs[i].status)))

\* some media of an emitted response carries an example
HasMediaExample(response) ==
    /\ Has(response, "content")
    /\ \E j \in 1..Len(Get(response, "content")[2]) :
          Has(Get(response, "content")[2][j][2], "example")

\* C15: after the returned list is mapped, a response declared without content
\* has no content key whatever the list holds at its position, and a response
\* declared with content whose position holds null has no example on any media.
C15_NullAndBodyless ==
    opPhase = "applied" =>
        \A i \in 1..Len(opSpecs) :
            IsLastWithStatus(opSpecs, i) =>
                /\ Len(opSpecs[i].media) = 0 => ~Has(EmittedResponse(i), "content")
                /\ ( /\ Len(opSpecs[i].media) > 0
                     /\ IsList(opRet)
                     /\ i <= Len(opRet[2])
                     /\ opRet[2][i] = None )
                   => ~HasMediaExample(EmittedResponse(i))

----------------------------------------------------------------------------
(* C16 *)

\* C16: whatever the list of types, the empty list included, the document
\* build_openapi_document returns has the keys openapi, info, paths and
\* components, components holding a schemas map.
C16_DocumentShape ==
    assembled.built =>
        /\ \A k \in {"openapi", "info", "paths", "components"} : Has(assembled.doc, k)
        /\ IsDict(Get(assembled.doc, "components"))
        /\ Has(Get(assembled.doc, "components"), "schemas")
        /\ IsDict(Get(Get(assembled.doc, "components"), "schemas"))

----------------------------------------------------------------------------
(* C18 *)

\* C18: once a type has a component name in a registry, every later
\* register_class_name call for it, with no name or with any name, returns
\* that name and leaves the type -> name mapping unchanged.
C18_RegisterIdempotent ==
    [][ ( /\ lastStep' = "register"
          /\ regClassToName[curSchema][lastCall'.args[1][2]] # None )
        => /\ lastResult' = Ok(regClassToName[curSchema][lastCall'.args[1][2]])
           /\ regClassToName' = regClassToName ]_vars

----------------------------------------------------------------------------
(* C19 *)

\* what the claim has resolve_name return for obj under class_to_name c2n
ResolvesTo(obj, c2n, result) ==
    IF IsStr(obj) THEN result = Ok(obj)
    ELSE IF IsCls(obj)
    THEN result = Ok(IF c2n[obj[2]] # None THEN c2n[obj[2]] ELSE ClassName(obj[2]))
    ELSE ~result.ok

\* C19: resolve_name returns a string unchanged, the registered name for a
\* type the registry has registered, the type's own identifier for a type it
\* never registered, and fails for any other input; it changes nothing.
C19_ResolveName ==
    [][ lastStep' = "resolve"
        => /\ ResolvesTo(lastCall'.args[1], regClassToName[curSchema], lastResult')
           /\ UNCHANGED regVars ]_vars

----------------------------------------------------------------------------
(* C20 *)

RECURSIVE RefStandsAlone(_)
\* every dict at or below v that has a "$ref" key has no other key
RefStandsAlone(v) ==
    IF IsDict(v)
    THEN /\ Has(v, "$ref") => Len(v[2]) = 1
         /\ \A i \in 1..Len(v[2]) : RefStandsAlone(v[2][i][2])
    ELSE IF IsList(v) THEN \A i \in 1..Len(v[2]) : RefStandsAlone(v[2][i])
    ELSE TRUE

\* C20: in every schema a registry holds, every node with a "$ref" key, a
\* property or an array's items, has "$ref" as its only key.
C20_RefOnlyKey ==
    \A r \in SchemaRegs : \A i \in 1..Len(regComponents[r][2]) :
        RefStandsAlone(regComponents[r][2][i][2])

----------------------------------------------------------------------------
(* C21 *)

\* the type names a field allows without ref
FieldTypeNames ==
    {Str("string"), Str("integer"), Str("number"), Str("boolean"),
     Str("array"), Str("null")}

\* the type names a type_ argument declares: one name, or a union's members
DeclaredTypeNames(type_) ==
    IF IsStr(type_) THEN {type_}
    ELSE IF IsList(type_) THEN {type_[2][i] : i \in 1..Len(type_[2])}
    ELSE {}

\* C21: a field declared without ref is accepted only if every type name it
\* declares is one of string, integer, number, boolean, array, null; a name
\* outside the primitive set, and object alone or in a union, is rejected.
C21_PrimitiveTypes ==
    (fieldResult.ok /\ fieldArgs.ref = None) =>
        DeclaredTypeNames(fieldArgs.type_) \subseteq FieldTypeNames

C21_Witness ==
    /\ fieldResult.ok
    /\ fieldArgs.ref = None
    /\ fieldArgs.type_ = List(<<Str("string"), Str("null")>>)

----------------------------------------------------------------------------
(* C22 *)

\* C22: across put_component, register_class_name and clear calls,
\* get_components gives the same mapping object, so a holder that got it
\* earlier sees every later put and every clear.
C22_LiveMapping ==
    \A r \in SchemaRegs :
        held[r] # 0 => /\ held[r] = compObj[r]
                       /\ heap[held[r]] = regComponents[r]

C22_Witness ==
    /\ held["sA"] # 0
    /\ lastStep = "put"
    /\ Keys(heap[held["sA"]]) = <<"Product">>
    /\ regClassToName["rootS"]["Product"] = Str("Prod")

----------------------------------------------------------------------------
(* C23 *)

RECURSIVE Sanitized(_, _)
\* the first n characters of s with braces removed and "/" replaced by "_"
Sanitized(s, n) ==
    IF n = 0 THEN ""
    ELSE LET ch == SubSeq(s, n, n) IN
         Sanitized(s, n - 1) \o (IF ch \in {"{", "}"} THEN ""
                                 ELSE IF ch = "/" THEN "_" ELSE ch)

\* the file identifier the claim derives from a URL template: the template
\* without its leading "/", braces removed, slashes replaced by "_"
UrlFileId(url) ==
    LET inner == IF Len(url) > 0 /\ SubSeq(url, 1, 1) = "/"
                 THEN SubSeq(url, 2, Len(url)) ELSE url
    IN Sanitized(inner, Len(inner))

\* C23: a type declared with @path and no explicit file identifier gets the
\* identifier derived from its URL template, and the split pipeline names the
\* type's path file by it.
C23_PathFileId ==
    lastRun.done =>
        LET section == Get(lastRun.files[IndexPath], "paths") IN
        \A i \in 1..Len(section[2]) :
            LET target == ResolveLink(IndexPath, Get(section[2][i][2], "$ref"))
            IN target[Len(target)] = FileName(UrlFileId(section[2][i][1]))

----------------------------------------------------------------------------
(* C24 *)

\* the URLs with a path item in the assembled document
AssembledUrls == Range(Keys(Get(assembled.doc, "paths")))

\* the path item the assembled document holds for url
AssembledItem(url) == Get(Get(assembled.doc, "paths"), url)

\* the classes bound to url, in registration order
BoundTo(url) == BoundClasses(pathMap[curPath], url)

\* the path-level parameters class pc declares, as the document shows them
PathLevelBlock(pc) ==
    List([i \in 1..Len(clsPathAttrs[pc].path_params) |->
            ParameterToDict(ParamToModel(clsPathAttrs[pc].path_params[i]))])

\* C24 as stated: if any class bound to a URL declares path-level parameters,
\* the path item carries one parameters block, holding the first bound class's
\* path-level parameters only.
C24_AnyTypeParameters ==
    assembled.built =>
        \A url \in AssembledUrls :
            (\E i \in 1..Len(BoundTo(url)) :
                 clsPathAttrs[BoundTo(url)[i]].path_params # <<>>)
            => /\ Has(AssembledItem(url), "parameters")
               /\ Get(AssembledItem(url), "parameters") = PathLevelBlock(BoundTo(url)[1])

\* C24 amended: if the first class bound to a URL declares path-level
\* parameters, the path item carries one parameters block holding exactly
\* those; otherwise it carries none, whatever later bound classes declare.
C24_FirstTypeParameters ==
    assembled.built =>
        \A url \in AssembledUrls :
            Len(BoundTo(url)) > 0 =>
                IF clsPathAttrs[BoundTo(url)[1]].path_params # <<>>
                THEN /\ Has(AssembledItem(url), "parameters")
                     /\ Get(AssembledItem(url), "parameters") =
                          PathLevelBlock(BoundTo(url)[1])
                ELSE ~Has(AssembledItem(url), "parameters")

\* a document assembled with two classes bound to one URL that declare
\* different path-level parameters
C24_Witness ==
    /\ assembled.built
    /\ Len(BoundTo("/products")) = 2
    /\ clsPathAttrs[BoundTo("/products")[1]].path_params # <<>>
    /\ clsPathAttrs[BoundTo("/products")[2]].path_params # <<>>
    /\ clsPathAttrs[BoundTo("/products")[1]].path_params #
         clsPathAttrs[BoundTo("/products")[2]].path_params

----------------------------------------------------------------------------
(* C26 *)

\* the functions of class pc whose decorator declared the HTTP method
\* method, in attribute-name order
Declarers(pc, method) ==
    SelectSeq(clsPathAttrs[pc].fns, LAMBDA fn : fn.http = method)

\* the class processed last among those bound to url, and its function
\* processed last among those declaring get
LastClass(url) == BoundTo(url)[Len(BoundTo(url))]

LastDeclarer(url) ==
    Declarers(LastClass(url), "get")[Len(Declarers(LastClass(url), "get"))]

\* the responses of class pc with the list ret mapped onto them as examples
ResponsesWith(pc, ret) ==
    LET specs == PathResponses(pc)
        built == BuildResponses(specs, Len(specs), clsSchemaName)
        applied == IF IsList(ret) THEN ApplyExamples(built, specs, ret) ELSE built
    IN Dict([i \in 1..Len(applied[2]) |->
               <<applied[2][i][1], ResponseToDict(applied[2][i][2])>>])

\* C26: the examples an operation carries are the return value of the very
\* function whose decorator declared it, also when that function's attribute
\* name differs from the HTTP method or another attribute bears that name.
C26_OwnExamples ==
    assembled.built =>
        \A url \in AssembledUrls :
            (Len(BoundTo(url)) > 0 /\ HasExample(Get(AssembledItem(url), "get"))) =>
                Get(Get(AssembledItem(url), "get"), "responses") =
                    ResponsesWith(LastClass(url),
                                  FnReturn(LastClass(url), LastDeclarer(url)))

----------------------------------------------------------------------------
(* C28 *)

\* C28: a path item holds one operation per HTTP method; when several classes
\* bound to the URL, or several functions of a class, declare the method, the
\* operation kept is the one processed last: its summary, its parameters and
\* its response statuses are those of the last declarer.
C28_LastOperationKept ==
    assembled.built =>
        \A url \in AssembledUrls :
            Len(BoundTo(url)) > 0 =>
                LET op == Get(AssembledItem(url), "get") IN
                /\ Range(Keys(AssembledItem(url))) \subseteq {"parameters", "get"}
                /\ GetOrNone(op, "summary") = FnSummary(LastClass(url), LastDeclarer(url))
                /\ IF clsPathAttrs[LastClass(url)].path_params = <<>>
                   THEN ~Has(op, "parameters")
                   ELSE Get(op, "parameters") = PathLevelBlock(LastClass(url))
                /\ Keys(Get(op, "responses")) =
                     [i \in 1..Len(PathResponses(LastClass(url))) |->
                        ToString(PathResponses(LastClass(url))[i].status)]

\* a document assembled with two classes bound to one URL, the later of them
\* with two functions that declare get
C28_Witness ==
    /\ assembled.built
    /\ Len(BoundTo("/products")) = 2
    /\ Len(Declarers(LastClass("/products"), "get")) = 2
    /\ clsPathAttrs[BoundTo("/products")[1]].path_params #
         clsPathAttrs[BoundTo("/products")[2]].path_params

----------------------------------------------------------------------------
(* C25 *)

\* the component name class c goes by: its __schema_name__, else its own name
ComponentNameOf(c) ==
    IF clsSchemaName[c] # None THEN clsSchemaName[c] ELSE ClassName(c)

\* the object schema of class c
SchemaOf(c) == PreviewObjectSchema(SchemaFields(c, clsFields))

\* the class registered last under the component name of classes[i]
LastNamedLike(classes, i) ==
    LET same == {j \in 1..Len(classes) :
                   ComponentNameOf(classes[j]) = ComponentNameOf(classes[i])}
    IN classes[CHOOSE j \in same : \A k \in same : k <= j]

\* C25: when two classes with different schemas are registered under one
\* component name, by the @schema decorator or by a build function, the
\* registry ends with the schema of the class registered last.
C25_LastWriteWins ==
    /\ lastCall.fn = "schema" /\ lastStep = "schema" =>
          Get(regComponents[curSchema], NameKey(ComponentNameOf(lastCall.args[1][2]))) =
              SchemaOf(lastCall.args[1][2])
    /\ lastCall.fn = "build_components_schemas" =>
          \A i \in 1..Len(lastCall.args) :
              Get(lastResult, NameKey(ComponentNameOf(lastCall.args[i]))) =
                  SchemaOf(LastNamedLike(lastCall.args, i))

----------------------------------------------------------------------------
(* C27 *)

\* the files the entries of an index section link to are pairwise distinct
LinksDistinct(section) ==
    \A i \in 1..Len(section[2]), j \in 1..Len(section[2]) :
        i # j => ResolveLink(IndexPath, Get(section[2][i][2], "$ref")) #
                 ResolveLink(IndexPath, Get(section[2][j][2], "$ref"))

\* C27: in the output of a run of the split pipeline two distinct URLs never
\* share a path file and two distinct component names never share a schema
\* file.
C27_NoSharedFile ==
    lastRun.done =>
        /\ LinksDistinct(Get(lastRun.files[IndexPath], "paths"))
        /\ LinksDistinct(Get(Get(lastRun.files[IndexPath], "components"), "schemas"))

----------------------------------------------------------------------------
(* C29 *)

\* the steps that are calls of build_components_schemas,
\* export_schemas_split_map and export_paths_dict
AmbientCalls == {"build", "split_map", "paths_dict"}

\* C29: build_components_schemas and export_schemas_split_map called without
\* a registry, and export_paths_dict, leave the ambient state unchanged: on
\* return, normal or by error, the current schema registry is the one that
\* was current at the call, its component and type-to-name maps are
\* unchanged, and the current path registry's URL-to-record map is unchanged
C29_AmbientUnchanged ==
    [][lastStep' \in AmbientCalls =>
          /\ curSchema' = curSchema
          /\ regComponents'[curSchema'] = regComponents[curSchema]
          /\ regClassToName'[curSchema'] = regClassToName[curSchema]
          /\ curPath' = curPath
          /\ pathMap'[curPath'] = pathMap[curPath]]_vars

\* build_components_schemas has raised at an element that is not a class
\* while a registry other than the root one, holding a component, is current
\* and the current path registry holds a URL
C29_Witness ==
    /\ lastStep = "build"
    /\ lastCall.args = <<"Product", NotAClass>>
    /\ lastResult = Raise("AttributeError")
    /\ curSchema # RootSchema
    /\ Keys(regComponents[curSchema]) # <<>>
    /\ curPath # RootPath
    /\ Keys(pathMap[curPath]) # <<>>

----------------------------------------------------------------------------
(* C30 *)

\* p names a file located inside the directory root
FileInside(p, root) ==
    /\ Len(p) > Len(root)
    /\ SubSeq(p, 1, Len(root)) = root

\* C30: for every source-location hint and every file identifier, the path
\* schema_target_path computes is a file inside <root>/schemas/ and the path
\* path_target_path computes is a file inside <root>/paths/
C30_TargetInside ==
    /\ lastCall.fn = "schema_target_path" =>
            FileInside(lastResult, DocsRoot \o <<"schemas">>)
    /\ lastCall.fn = "path_target_path" =>
            FileInside(lastResult, DocsRoot \o <<"paths">>)

============================================================================
